---- MODULE Spec2Model ----
(***************************************************************************)
(* Model of the pptx-generator services: template analysis                 *)
(* (template_analyzer.py) and layout / placeholder resolution, content     *)
(* normalisation and slide assembly (pptx_generator.py).                   *)
(*                                                                         *)
(* Strings whose characters the code inspects (layout names, placeholder   *)
(* names, content keys, colours) are sequences of one-character strings.   *)
(* Optional values are the record None or the record Some(v).              *)
(***************************************************************************)
EXTENDS Integers, Sequences, FiniteSets, TLC

VARIABLES
    prs,        \* the opened presentation: masters with layouts, and the slides added so far
    meta,       \* TemplateMeta produced by analyze_template (None before analysis)
    call,       \* arguments of the function call in progress (None when idle)
    ret,        \* value returned / exception raised by that call
    slides,     \* generate_pptx: the list of SlideDefinition being processed
    pc,         \* generate_pptx / add_slide: position in the code
    k,          \* generate_pptx: index of the slide definition being processed
    e,          \* add_slide: index of the next content entry / shape entry
    warnings,   \* PptxGenerator.warnings
    result,     \* generate_pptx: returned (path, warnings), or the raised error
    output,     \* the file at output_path: None, or the slides written by save
    templates_dir,  \* TemplateManager: base_dir/templates, file name -> file content
    meta_dir,       \* TemplateManager: base_dir/meta, template id -> stored TemplateMeta
    sessions_dir,   \* SessionManager: base_dir/sessions, session id -> stored SessionState
    issued          \* SessionManager: number of session ids uuid4 has produced

vars == <<prs, meta, call, ret, slides, pc, k, e, warnings, result, output,
          templates_dir, meta_dir, sessions_dir, issued>>

\* the variables of a generation request
genVars == <<slides, pc, k, e, warnings, result, output>>

\* the directories of the two managers
storeVars == <<templates_dir, meta_dir, sessions_dir, issued>>

None == [none |-> TRUE]
Some(v) == [some |-> v]
IsNone(o) == DOMAIN o = {"none"}
IsSome(o) == DOMAIN o = {"some"}

----------------------------------------------------------------------------
(* Bounds *)

MaxMasters == 2
MaxPerMaster == 3
MaxResolveLayouts == 3
MaxPlaceholders == 2
MaxItems == 2
MaxSlides == 2

----------------------------------------------------------------------------
(* str helpers *)

LowerChar(c) ==
    LET UpperChars == <<"A","B","C","D","E","F","G","H","I","J","K","L","M",
                        "N","O","P","Q","R","S","T","U","V","W","X","Y","Z">>
        LowerChars == <<"a","b","c","d","e","f","g","h","i","j","k","l","m",
                        "n","o","p","q","r","s","t","u","v","w","x","y","z">>
    IN  IF \E i \in DOMAIN UpperChars : UpperChars[i] = c
        THEN LowerChars[CHOOSE i \in DOMAIN UpperChars : UpperChars[i] = c]
        ELSE c

\* str.lower()
Lower(s) == [i \in DOMAIN s |-> LowerChar(s[i])]

\* sub in s
StrIn(sub, s) ==
    \E i \in 0..(Len(s) - Len(sub)) : SubSeq(s, i + 1, i + Len(sub)) = sub

\* s.startswith(p)
StartsWith(s, p) == Len(s) >= Len(p) /\ SubSeq(s, 1, Len(p)) = p

\* s[n:]
Drop(s, n) == SubSeq(s, n + 1, Len(s))

DigitChars == <<"0","1","2","3","4","5","6","7","8","9">>

\* str(i) for 0 <= i <= 99
IntToStr(i) ==
    IF i < 10 THEN <<DigitChars[i + 1]>>
    ELSE <<DigitChars[(i \div 10) + 1], DigitChars[(i % 10) + 1]>>

----------------------------------------------------------------------------
(* Templates: masters in document order, each with its layouts in native   *)
(* order.  A layout carries its identity (id), its name and its native     *)
(* placeholder shapes.                                                     *)

\* native placeholder shapes of a layout (python-pptx LayoutPlaceholder)
PhTitle  == [idx |-> 0, type |-> "TITLE", name |-> <<"T","i">>,
             left |-> 457200, top |-> 274638, has_text_frame |-> TRUE]
PhBody   == [idx |-> 1, type |-> "BODY", name |-> <<"B","o">>,
             left |-> 457200, top |-> 1600200, has_text_frame |-> TRUE]
PhPic    == [idx |-> 2, type |-> "PICTURE", name |-> <<"P","i">>,
             left |-> 4572000, top |-> 1600200, has_text_frame |-> FALSE]
PhFooter == [idx |-> 11, type |-> "FOOTER", name |-> <<"F","o">>,
             left |-> 3124200, top |-> 6356350, has_text_frame |-> TRUE]
PhDate   == [idx |-> 10, type |-> "DATE", name |-> <<"D","a">>,
             left |-> 457200, top |-> 6356350, has_text_frame |-> TRUE]
PhSldNum == [idx |-> 12, type |-> "SLIDE_NUMBER", name |-> <<"N","o">>,
             left |-> 6553200, top |-> 6356350, has_text_frame |-> TRUE]
\* a native type tag PLACEHOLDER_TYPE_MAP has no entry for
\* it lies within a thousandth of an inch of PhBody, so both have the same
\* position in hundredths of an inch
PhMedia  == [idx |-> 4, type |-> "MEDIA_CLIP", name |-> <<"M","e">>,
             left |-> 458000, top |-> 1599500, has_text_frame |-> FALSE]

\* layouts a template is built from: (name, native placeholder list)
LayoutPool ==
    { [name |-> <<"A","b">>, placeholders |-> <<PhTitle, PhBody>>],
      [name |-> <<"a">>,     placeholders |-> <<PhBody, PhDate, PhFooter, PhSldNum, PhMedia, PhTitle>>] }

SeqsUpTo(S, n) == UNION { [1..m -> S] : m \in 0..n }

\* give every layout its identity: (master position, position in the master)
WithIds(ms) ==
    [m \in DOMAIN ms |->
        [l \in DOMAIN ms[m] |->
            [id |-> <<m, l>>, name |-> ms[m][l].name,
             placeholders |-> ms[m][l].placeholders]]]

Templates ==
    { [masters |-> WithIds(ms), slides |-> <<>>] :
        ms \in SeqsUpTo(SeqsUpTo(LayoutPool, MaxPerMaster), MaxMasters) }

----------------------------------------------------------------------------
(* pptx_generator.py: layout resolution *)

RECURSIVE ExtendAll(_, _)
\* layouts.extend(master.slide_layouts) for the masters from position m on
ExtendAll(masters, m) ==
    IF m > Len(masters) THEN <<>>
    ELSE masters[m] \o ExtendAll(masters, m + 1)

_get_all_layouts(p) == ExtendAll(p.masters, 1)

Ok(v) == [ok |-> TRUE, value |-> v]
Raise(exc, msg) == [ok |-> FALSE, exc |-> exc, msg |-> msg]

\* meta and meta.custom_config and meta.custom_config.layout_aliases
HasAliases(m) ==
    /\ IsSome(m)
    /\ IsSome(m.some.custom_config)
    /\ DOMAIN m.some.custom_config.some.layout_aliases # {}

FirstIndex(n, P(_)) == CHOOSE i \in 1..n : P(i) /\ \A j \in 1..(i - 1) : ~P(j)

\* a plausible slip: a single pass that takes the first name containing the query
FindLayoutByNameSubstringFirst(all_layouts, name) ==
    LET n == Len(all_layouts)
        Partial(i) == StrIn(Lower(name), Lower(all_layouts[i].name))
    IN  IF \E i \in 1..n : Partial(i)
        THEN Ok(all_layouts[FirstIndex(n, Partial)])
        ELSE Raise("ValueError", <<"Layout not found: ", name>>)

\* lines 242-253: exact match, then case-insensitive substring, else ValueError
FindLayoutByName(all_layouts, name) ==
    LET n == Len(all_layouts)
        Exact(i) == all_layouts[i].name = name
        Partial(i) == StrIn(Lower(name), Lower(all_layouts[i].name))
    IN  IF \E i \in 1..n : Exact(i)
        THEN Ok(all_layouts[FirstIndex(n, Exact)])
        ELSE IF \E i \in 1..n : Partial(i)
        THEN Ok(all_layouts[FirstIndex(n, Partial)])
        ELSE Raise("ValueError", <<"Layout not found: ", name>>)

\* a plausible slip: the alias table is consulted only when no name matches
FindLayoutByNameThenAlias(all_layouts, name, m) ==
    LET byName == FindLayoutByName(all_layouts, name)
    IN  IF byName.ok THEN byName
        ELSE IF /\ HasAliases(m)
                /\ name \in DOMAIN m.some.custom_config.some.layout_aliases
                /\ LET alias_index == m.some.custom_config.some.layout_aliases[name]
                   IN  0 <= alias_index /\ alias_index < Len(all_layouts)
        THEN Ok(all_layouts[m.some.custom_config.some.layout_aliases[name] + 1])
        ELSE byName

\* lines 235-240: the alias table is consulted before the names
FindLayoutByAliasOrName(all_layouts, name, m) ==
    IF /\ HasAliases(m)
       /\ name \in DOMAIN m.some.custom_config.some.layout_aliases
       /\ LET alias_index == m.some.custom_config.some.layout_aliases[name]
          IN  0 <= alias_index /\ alias_index < Len(all_layouts)
    THEN Ok(all_layouts[m.some.custom_config.some.layout_aliases[name] + 1])
    ELSE FindLayoutByName(all_layouts, name)

\* a plausible slip: the lower bound is not checked, so a negative index counts
\* from the end as list indexing does
FindLayoutByIndexNoLowerBound(all_layouts, index) ==
    IF -Len(all_layouts) <= index /\ index < Len(all_layouts)
    THEN Ok(all_layouts[(index % Len(all_layouts)) + 1])
    ELSE Raise("ValueError", <<"Layout index out of range", index>>)

\* lines 228-231: an explicit index is range-checked, never clamped
FindLayoutByIndex(all_layouts, index) ==
    IF 0 <= index /\ index < Len(all_layouts)
    THEN Ok(all_layouts[index + 1])
    ELSE Raise("ValueError", <<"Layout index out of range", index>>)

_find_layout_by_name_or_index(p, name, index, m) ==
    LET all_layouts == _get_all_layouts(p)
    IN  IF IsSome(index) THEN FindLayoutByIndex(all_layouts, index.some)
        ELSE IF IsSome(name) THEN FindLayoutByAliasOrName(all_layouts, name.some, m)
        ELSE IF Len(all_layouts) > 0 THEN Ok(all_layouts[1])
        ELSE Raise("IndexError", <<"prs.slide_layouts[0]">>)

----------------------------------------------------------------------------
(* template_analyzer.py *)

\* PLACEHOLDER_TYPE_MAP: native type tag -> PlaceholderType
PLACEHOLDER_TYPE_MAP ==
    [t \in {"TITLE", "CENTER_TITLE", "SUBTITLE", "BODY", "OBJECT", "CHART",
            "TABLE", "PICTURE", "FOOTER", "DATE", "SLIDE_NUMBER"} |-> t]

\* round(emu / 914400, 2), kept as an integer number of hundredths of an inch
_emu_to_inches(emu) == (emu * 100 + 457200) \div 914400

_get_placeholder_type(ph_type) ==
    IF IsNone(ph_type) THEN None
    ELSE IF ph_type.some \in DOMAIN PLACEHOLDER_TYPE_MAP
    THEN Some(PLACEHOLDER_TYPE_MAP[ph_type.some])
    ELSE None

_extract_placeholder_meta(placeholder, idx) ==
    [idx |-> placeholder.idx,
     type |-> _get_placeholder_type(Some(placeholder.type)),
     name |-> IF placeholder.name # <<>> THEN placeholder.name
              ELSE <<"P","l","a","c","e","h","o","l","d","e","r"," ">> \o IntToStr(idx),
     left |-> _emu_to_inches(placeholder.left),
     top |-> _emu_to_inches(placeholder.top),
     has_text_frame |-> placeholder.has_text_frame]

\* key=lambda p: (p.top, p.left)
SortKeyLess(a, b) == a.top < b.top \/ (a.top = b.top /\ a.left < b.left)

\* insert x after every element that does not sort after it (list.sort is stable)
RECURSIVE InsertSorted(_, _)
InsertSorted(sorted, x) ==
    IF sorted = <<>> THEN <<x>>
    ELSE IF SortKeyLess(x, sorted[Len(sorted)])
    THEN InsertSorted(SubSeq(sorted, 1, Len(sorted) - 1), x) \o <<sorted[Len(sorted)]>>
    ELSE sorted \o <<x>>

\* a plausible slip: the list is left in native declaration order
KeepNativeOrder(s) == s

RECURSIVE SortPlaceholders(_)
SortPlaceholders(s) ==
    IF s = <<>> THEN <<>>
    ELSE InsertSorted(SortPlaceholders(SubSeq(s, 1, Len(s) - 1)), s[Len(s)])

\* a plausible slip: no placeholder is left out
ExtractEveryPlaceholder(shapes, i) ==
    [j \in 1..(Len(shapes) - i + 1) |-> _extract_placeholder_meta(shapes[i + j - 1], i + j - 2)]

\* lines 84-96: the loop over enumerate(layout.placeholders)
RECURSIVE ExtractPlaceholders(_, _)
ExtractPlaceholders(shapes, i) ==
    IF i > Len(shapes) THEN <<>>
    ELSE IF shapes[i].type \in {"SLIDE_NUMBER", "DATE", "FOOTER"}
    THEN ExtractPlaceholders(shapes, i + 1)
    ELSE <<_extract_placeholder_meta(shapes[i], i - 1)>> \o ExtractPlaceholders(shapes, i + 1)

_extract_layout_meta(layout, index) ==
    [index |-> index,
     name |-> IF layout.name # <<>> THEN layout.name
              ELSE <<"L","a","y","o","u","t"," ">> \o IntToStr(index),
     description |-> None,
     usage_hint |-> None,
     placeholders |-> SortPlaceholders(ExtractPlaceholders(layout.placeholders, 1))]

\* a plausible slip: the counter restarts with every master
RECURSIVE AnalyzeLayoutsPerMaster(_, _, _, _)
AnalyzeLayoutsPerMaster(masters, m, l, global_index) ==
    IF m > Len(masters) THEN <<>>
    ELSE IF l > Len(masters[m]) THEN AnalyzeLayoutsPerMaster(masters, m + 1, 1, 0)
    ELSE <<_extract_layout_meta(masters[m][l], global_index)>>
         \o AnalyzeLayoutsPerMaster(masters, m, l + 1, global_index + 1)

\* lines 143-153: the nested loop over masters and their layouts; global_index
\* is the running counter
RECURSIVE AnalyzeLayouts(_, _, _, _)
AnalyzeLayouts(masters, m, l, global_index) ==
    IF m > Len(masters) THEN <<>>
    ELSE IF l > Len(masters[m]) THEN AnalyzeLayouts(masters, m + 1, 1, global_index)
    ELSE <<_extract_layout_meta(masters[m][l], global_index)>>
         \o AnalyzeLayouts(masters, m, l + 1, global_index + 1)

analyze_template(p, template_id, custom_config) ==
    [id |-> template_id,
     layouts |-> AnalyzeLayouts(p.masters, 1, 1, 0),
     custom_config |-> custom_config]

----------------------------------------------------------------------------
(* Calls of the analysis and resolution functions *)

TotalLayouts(p) == Len(_get_all_layouts(p))

\* layout names a caller asks for
QueryNames == { <<"a">>, <<"A">>, <<"a","b">>, <<"A","B">>, <<"x">>, <<>> }

AliasTables ==
    { [n \in {} |-> 0] } \cup
    { [n \in {key} |-> i] : key \in { <<"a">>, <<"x">> }, i \in (-1)..MaxResolveLayouts }

\* the template_meta argument: absent, without custom_config, or with an alias table
ResolveMetas ==
    { None, Some([custom_config |-> None]) } \cup
    { Some([custom_config |-> Some([layout_aliases |-> t])]) : t \in AliasTables }

OptOf(S) == { None } \cup { Some(x) : x \in S }

Idle ==
    /\ call = None
    /\ ret = None

\* analyze_template(pptx_path, template_id)
AnalyzeTemplate ==
    /\ Idle
    /\ meta = None
    /\ meta' = Some(analyze_template(prs, "t1", None))
    /\ UNCHANGED <<prs, call, ret, genVars, storeVars>>

\* PptxGenerator.add_slide line 638 for a definition that gives layout_index only,
\* on a generator built with the analysed metadata
ResolveByIndex ==
    /\ Idle
    /\ IsSome(meta)
    /\ \E index \in (-1)..(TotalLayouts(prs) + 1) :
          /\ call' = Some([name |-> None, index |-> Some(index), meta |-> meta])
          /\ ret' = Some(_find_layout_by_name_or_index(prs, None, Some(index), meta))
    /\ UNCHANGED <<prs, meta, genVars, storeVars>>

\* _find_layout_by_name_or_index(prs, name, index, meta)
ResolveLayout ==
    /\ Idle
    /\ \E name \in OptOf(QueryNames), index \in OptOf((-1)..(MaxResolveLayouts + 1)),
          m \in ResolveMetas :
          /\ call' = Some([name |-> name, index |-> index, meta |-> m])
          /\ ret' = Some(_find_layout_by_name_or_index(prs, name, index, m))
    /\ UNCHANGED <<prs, meta, genVars, storeVars>>

Return ==
    /\ call # None
    /\ call' = None
    /\ ret' = None
    /\ UNCHANGED <<prs, meta, genVars, storeVars>>

\* both managers start on an empty base directory
InitStore ==
    /\ templates_dir = << >>
    /\ meta_dir = << >>
    /\ sessions_dir = << >>
    /\ issued = 0

InitCommon ==
    /\ meta = None
    /\ call = None
    /\ ret = None
    /\ slides = <<>>
    /\ pc = "idle"
    /\ k = 0
    /\ e = 0
    /\ warnings = <<>>
    /\ result = None
    /\ output = None
    /\ InitStore

InitAnalyze ==
    /\ prs \in Templates
    /\ InitCommon

NextAnalyze == AnalyzeTemplate \/ ResolveByIndex \/ Return

SpecAnalyze == InitAnalyze /\ [][NextAnalyze]_vars

InitLayout ==
    /\ prs \in { t \in Templates : TotalLayouts(t) <= MaxResolveLayouts }
    /\ InitCommon

NextLayout == ResolveLayout \/ Return

SpecLayout == InitLayout /\ [][NextLayout]_vars

----------------------------------------------------------------------------
(* pptx_generator.py: placeholder resolution *)

\* a plausible slip: every member of PlaceholderType is mapped to a native type
FindTypeMapAllMembers ==
    [t \in {"TITLE", "CENTER_TITLE", "SUBTITLE", "BODY", "OBJECT", "PICTURE",
            "CHART", "TABLE", "FOOTER", "DATE", "SLIDE_NUMBER"} |-> t]

\* type_map of _find_placeholder: the requested types that can match at all
FIND_TYPE_MAP ==
    [t \in {"TITLE", "CENTER_TITLE", "SUBTITLE", "BODY"} |-> t]

\* one placeholder against the three criteria, lines 178-197
PlaceholderMatches(shape, name, idx, ph_type) ==
    \/ IsSome(idx) /\ shape.idx = idx.some
    \/ /\ IsSome(name)
       /\ \/ StrIn(Lower(name.some), Lower(shape.name))
          \/ StrIn(Lower(shape.name), Lower(name.some))
    \/ /\ IsSome(ph_type)
       /\ ph_type.some \in DOMAIN FIND_TYPE_MAP
       /\ shape.type = FIND_TYPE_MAP[ph_type.some]

\* lines 162-199: one pass over slide.placeholders; the first placeholder that
\* satisfies any requested criterion is returned (as its position in the
\* collection), None when the loop ends
_find_placeholder(slide, name, idx, ph_type) ==
    LET phs == slide.placeholders
        n == Len(phs)
        Hit(i) == PlaceholderMatches(phs[i], name, idx, ph_type)
    IN  IF \E i \in 1..n : Hit(i)
        THEN Some(CHOOSE i \in 1..n : Hit(i) /\ \A j \in 1..(i - 1) : ~Hit(j))
        ELSE None

\* PlaceholderType, the values of the enum
PlaceholderTypeValues ==
    [t \in {"TITLE", "CENTER_TITLE", "SUBTITLE", "BODY", "OBJECT", "PICTURE",
            "CHART", "TABLE", "FOOTER", "DATE", "SLIDE_NUMBER"} |->
        CASE t = "TITLE" -> <<"T","I","T","L","E">>
          [] t = "CENTER_TITLE" -> <<"C","E","N","T","E","R","_","T","I","T","L","E">>
          [] t = "SUBTITLE" -> <<"S","U","B","T","I","T","L","E">>
          [] t = "BODY" -> <<"B","O","D","Y">>
          [] t = "OBJECT" -> <<"O","B","J","E","C","T">>
          [] t = "PICTURE" -> <<"P","I","C","T","U","R","E">>
          [] t = "CHART" -> <<"C","H","A","R","T">>
          [] t = "TABLE" -> <<"T","A","B","L","E">>
          [] t = "FOOTER" -> <<"F","O","O","T","E","R">>
          [] t = "DATE" -> <<"D","A","T","E">>
          [] t = "SLIDE_NUMBER" -> <<"S","L","I","D","E","_","N","U","M","B","E","R">>]

\* PlaceholderType(type_str): the member with that value, else ValueError
ParsePlaceholderType(type_str) ==
    IF \E t \in DOMAIN PlaceholderTypeValues : PlaceholderTypeValues[t] = type_str
    THEN Ok(CHOOSE t \in DOMAIN PlaceholderTypeValues : PlaceholderTypeValues[t] = type_str)
    ELSE Raise("ValueError", <<"not a valid PlaceholderType", type_str>>)

DigitValue(c) == (CHOOSE i \in DOMAIN DigitChars : DigitChars[i] = c) - 1
IsDigit(c) == \E i \in DOMAIN DigitChars : DigitChars[i] = c

RECURSIVE StripLeft(_, _)
StripLeft(s, c) == IF s # <<>> /\ s[1] = c THEN StripLeft(Tail(s), c) ELSE s

RECURSIVE StripRight(_, _)
StripRight(s, c) ==
    IF s # <<>> /\ s[Len(s)] = c THEN StripRight(SubSeq(s, 1, Len(s) - 1), c) ELSE s

RECURSIVE DigitsValue(_, _)
\* value of a digit string in which single underscores may separate digits
DigitsValue(s, acc) ==
    IF s = <<>> THEN acc
    ELSE IF s[1] = "_" THEN DigitsValue(Tail(s), acc)
    ELSE DigitsValue(Tail(s), acc * 10 + DigitValue(s[1]))

\* int(s): optional blanks around, optional sign, digits with single
\* underscores between digits; ValueError otherwise
ParseInt(s) ==
    LET t == StripRight(StripLeft(s, " "), " ")
        signed == t # <<>> /\ t[1] \in {"+", "-"}
        body == IF signed THEN Tail(t) ELSE t
        wellFormed ==
            /\ body # <<>>
            /\ \A i \in DOMAIN body : IsDigit(body[i]) \/ body[i] = "_"
            /\ IsDigit(body[1]) /\ IsDigit(body[Len(body)])
            /\ \A i \in 1..(Len(body) - 1) : ~(body[i] = "_" /\ body[i + 1] = "_")
    IN  IF wellFormed
        THEN Ok(IF signed /\ t[1] = "-" THEN -DigitsValue(body, 0) ELSE DigitsValue(body, 0))
        ELSE Raise("ValueError", <<"invalid literal for int() with base 10", s>>)

IdxPrefix == <<"i","d","x",":">>
\* the key "idx:<n>"
IdxKey(n) == IdxPrefix \o IntToStr(n)
TypePrefix == <<"t","y","p","e",":">>

\* a plausible slip: a type key that finds no placeholder falls back to the name
ResolvePlaceholderNameFallback(slide, key) ==
    IF StartsWith(key, IdxPrefix)
    THEN LET idx == ParseInt(Drop(key, 4))
         IN  IF idx.ok THEN Ok(_find_placeholder(slide, None, Some(idx.value), None))
             ELSE idx
    ELSE IF /\ StartsWith(key, TypePrefix) /\ ParsePlaceholderType(Drop(key, 5)).ok
            /\ IsSome(_find_placeholder(slide, None, None,
                                        Some(ParsePlaceholderType(Drop(key, 5)).value)))
    THEN Ok(_find_placeholder(slide, None, None, Some(ParsePlaceholderType(Drop(key, 5)).value)))
    ELSE Ok(_find_placeholder(slide, Some(key), None, None))

\* PptxGenerator._resolve_placeholder, lines 729-757: Ok(position or None), or
\* the ValueError of int()
_resolve_placeholder(slide, key) ==
    IF StartsWith(key, IdxPrefix)
    THEN LET idx == ParseInt(Drop(key, 4))
         IN  IF idx.ok THEN Ok(_find_placeholder(slide, None, Some(idx.value), None))
             ELSE idx
    ELSE IF StartsWith(key, TypePrefix) /\ ParsePlaceholderType(Drop(key, 5)).ok
    THEN Ok(_find_placeholder(slide, None, None, Some(ParsePlaceholderType(Drop(key, 5)).value)))
    ELSE Ok(_find_placeholder(slide, Some(key), None, None))

----------------------------------------------------------------------------
(* Calls of _find_placeholder on a slide *)

\* text_frame of a fresh placeholder: one empty paragraph
EmptyParagraph == [level |-> 0, alignment |-> None, runs |-> <<>>]
EmptyTextFrame == <<EmptyParagraph>>

\* the placeholder shape a slide gets for a layout placeholder
SlidePlaceholder(ph) ==
    [idx |-> ph.idx, type |-> ph.type, name |-> ph.name,
     left |-> ph.left, top |-> ph.top,
     has_text_frame |-> ph.has_text_frame, text_frame |-> EmptyTextFrame]

\* a placeholder shape without a name
PhUnnamed == [idx |-> 3, type |-> "OBJECT", name |-> <<>>,
              left |-> 457200, top |-> 3886200, has_text_frame |-> TRUE]

SlidePlaceholderPool ==
    { SlidePlaceholder(ph) : ph \in {PhTitle, PhBody, PhPic, PhUnnamed} }

NewSlide(layout_id, phs) ==
    [layout |-> layout_id, placeholders |-> phs, shapes |-> <<>>, notes |-> None]

\* slides whose placeholders have pairwise different idx, in any order
FindSlides ==
    { NewSlide(<<0, 0>>, phs) : phs \in
        { q \in SeqsUpTo(SlidePlaceholderPool, MaxPlaceholders) :
            \A i, j \in DOMAIN q : i # j => q[i].idx # q[j].idx } }

\* _find_placeholder(slide, name, idx, ph_type)
FindPlaceholder ==
    /\ Idle
    /\ \E slide \in FindSlides,
          name \in OptOf({ <<"t","i">>, <<"B","o">>, <<"x">> }),
          idx \in OptOf({ 0, 1, 2, 5 }),
          ph_type \in OptOf({ "TITLE", "BODY", "PICTURE", "OBJECT" }) :
          /\ call' = Some([slide |-> slide, name |-> name, idx |-> idx, ph_type |-> ph_type])
          /\ ret' = Some(_find_placeholder(slide, name, idx, ph_type))
    /\ UNCHANGED <<prs, meta, genVars, storeVars>>

\* a call of the operation whose arguments include arg has returned
Called(arg) == IsSome(call) /\ IsSome(ret) /\ arg \in DOMAIN call.some

\* C1: whenever some placeholder of the slide has the requested idx, the result
\* is that placeholder, whatever name or type was also requested and whatever
\* the order of the placeholders.
C1_IdxDominates ==
    (/\ Called("idx")
     /\ IsSome(call.some.idx)
     /\ \E i \in DOMAIN call.some.slide.placeholders :
           call.some.slide.placeholders[i].idx = call.some.idx.some)
    => /\ IsSome(ret.some)
       /\ call.some.slide.placeholders[ret.some.some].idx = call.some.idx.some

----------------------------------------------------------------------------
(* pptx_generator.py: text styles and text placement *)

HexChars == <<"0","1","2","3","4","5","6","7","8","9","a","b","c","d","e","f">>
IsHex(c) == \E i \in DOMAIN HexChars : HexChars[i] = LowerChar(c)
HexValue(c) == (CHOOSE i \in DOMAIN HexChars : HexChars[i] = LowerChar(c)) - 1

\* int(two_chars, 16) followed by RGBColor's 0..255 check
ParseHexByte(s) ==
    IF IsHex(s[1]) /\ IsHex(s[2]) THEN Ok(16 * HexValue(s[1]) + HexValue(s[2]))
    ELSE IF s[1] = "+" /\ IsHex(s[2]) THEN Ok(HexValue(s[2]))
    ELSE Raise("ValueError", <<"invalid literal for int() with base 16", s>>)

\* lines 130-138
_parse_rgb_color(color_str) ==
    LET c == StripLeft(color_str, "#")
    IN  IF Len(c) # 6 THEN Raise("ValueError", <<"Invalid color format: ", c>>)
        ELSE LET r == ParseHexByte(SubSeq(c, 1, 2))
                 g == ParseHexByte(SubSeq(c, 3, 4))
                 b == ParseHexByte(SubSeq(c, 5, 6))
             IN  IF ~r.ok THEN r
                 ELSE IF ~g.ok THEN g
                 ELSE IF ~b.ok THEN b
                 ELSE Ok(<<r.value, g.value, b.value>>)

THEME_COLOR_MAP ==
    {"DARK_1", "LIGHT_1", "DARK_2", "LIGHT_2", "ACCENT_1", "ACCENT_2",
     "ACCENT_3", "ACCENT_4", "ACCENT_5", "ACCENT_6"}

\* font of a fresh run
PlainFont == [bold |-> None, size |-> None, rgb |-> None, theme_color |-> None]

NewRun(text) == [text |-> text, font |-> PlainFont]

\* TextStyle(...) with the schema's defaults
TextStyle(bold, font_size, color, theme_color) ==
    [bold |-> bold, font_size |-> font_size, color |-> color, theme_color |-> theme_color]

\* lines 141-159: the font after the assignments made; ok is FALSE when
\* _parse_rgb_color raised, and the assignments made before it stay
_apply_text_style(run, style) ==
    IF IsNone(style) THEN [ok |-> TRUE, run |-> run]
    ELSE LET st == style.some
             f1 == IF st.bold THEN [run.font EXCEPT !.bold = Some(TRUE)] ELSE run.font
             f2 == IF IsSome(st.font_size) /\ st.font_size.some # 0
                   THEN [f1 EXCEPT !.size = st.font_size] ELSE f1
         IN  IF IsSome(st.color) /\ st.color.some # <<>>
             THEN LET rgb == _parse_rgb_color(st.color.some)
                  IN  IF rgb.ok
                      THEN [ok |-> TRUE, run |-> [run EXCEPT !.font = [f2 EXCEPT !.rgb = Some(rgb.value)]]]
                      ELSE [ok |-> FALSE, run |-> [run EXCEPT !.font = f2],
                            exc |-> rgb.exc, msg |-> rgb.msg]
             ELSE IF IsSome(st.theme_color) /\ st.theme_color.some \in THEME_COLOR_MAP
             THEN [ok |-> TRUE, run |-> [run EXCEPT !.font = [f2 EXCEPT !.theme_color = st.theme_color]]]
             ELSE [ok |-> TRUE, run |-> [run EXCEPT !.font = f2]]

\* text_frame.clear(): all paragraphs but the first are removed and the first
\* loses its runs (its paragraph properties stay)
ClearTextFrame(text_frame) == <<[text_frame[1] EXCEPT !.runs = <<>>]>>

\* paragraphs[0] for the first item, add_paragraph() for the others
ParagraphFor(text_frame, i) ==
    IF i = 1 THEN text_frame ELSE Append(text_frame, EmptyParagraph)

\* the paragraph written by the i-th iteration is the last of the frame
LastParagraph(text_frame) == text_frame[Len(text_frame)]
SetLast(text_frame, p) == [text_frame EXCEPT ![Len(text_frame)] = p]

\* lines 322-333
_insert_simple_text(text_frame, text) ==
    LET tf == ClearTextFrame(text_frame)
    IN  [ok |-> TRUE,
         text_frame |-> [tf EXCEPT ![1].runs = Append(tf[1].runs, NewRun(text))]]

RECURSIVE SimpleBulletsLoop(_, _, _)
\* lines 345-353, iterations i..len(items)
SimpleBulletsLoop(text_frame, items, i) ==
    IF i > Len(items) THEN [ok |-> TRUE, text_frame |-> text_frame]
    ELSE LET tf == ParagraphFor(text_frame, i)
             p == LastParagraph(tf)
             p2 == [p EXCEPT !.level = 0, !.runs = Append(p.runs, NewRun(items[i]))]
         IN  SimpleBulletsLoop(SetLast(tf, p2), items, i + 1)

\* lines 336-353
_insert_simple_bullets(text_frame, items) ==
    SimpleBulletsLoop(ClearTextFrame(text_frame), items, 1)

\* a bullet item is a bare string or a ParagraphContent
StrItem(text) == [kind |-> "str", text |-> text]
ParagraphContent(text, style, bullet, level, alignment) ==
    [kind |-> "paragraph", text |-> text, style |-> style, bullet |-> bullet,
     level |-> level, alignment |-> alignment]

\* a plausible slip: every item, the first too, goes to an added paragraph
RECURSIVE BulletLoopAlwaysAdds(_, _, _)
BulletLoopAlwaysAdds(text_frame, content, i) ==
    IF i > Len(content.items) THEN [ok |-> TRUE, text_frame |-> text_frame]
    ELSE LET tf == Append(text_frame, EmptyParagraph)
             p == LastParagraph(tf)
             item == content.items[i]
             styled == _apply_text_style(NewRun(item.text),
                          IF item.kind = "str" \/ IsNone(item.style)
                          THEN content.style ELSE item.style)
             p2 == [p EXCEPT !.level = IF item.kind = "str" THEN 0 ELSE item.level,
                             !.runs = Append(p.runs, styled.run)]
         IN  IF styled.ok THEN BulletLoopAlwaysAdds(SetLast(tf, p2), content, i + 1)
             ELSE [ok |-> FALSE, text_frame |-> SetLast(tf, [p2 EXCEPT !.level = 0]),
                   exc |-> styled.exc, msg |-> styled.msg]

RECURSIVE BulletLoop(_, _, _)
\* lines 302-319, iterations i..len(content.items); an exception of
\* _apply_text_style ends the loop with the frame as mutated so far
BulletLoop(text_frame, content, i) ==
    IF i > Len(content.items) THEN [ok |-> TRUE, text_frame |-> text_frame]
    ELSE LET tf == ParagraphFor(text_frame, i)
             p == LastParagraph(tf)
             item == content.items[i]
             styled == _apply_text_style(NewRun(item.text),
                          IF item.kind = "str" \/ IsNone(item.style)
                          THEN content.style ELSE item.style)
             p2 == [p EXCEPT !.level = IF item.kind = "str" THEN 0 ELSE item.level,
                             !.runs = Append(p.runs, styled.run)]
         IN  IF styled.ok THEN BulletLoop(SetLast(tf, p2), content, i + 1)
             ELSE [ok |-> FALSE, text_frame |-> SetLast(tf, [p2 EXCEPT !.level = 0]),
                   exc |-> styled.exc, msg |-> styled.msg]

\* lines 293-319
_insert_bullet_content(text_frame, content) ==
    BulletLoop(ClearTextFrame(text_frame), content, 1)

ALIGNMENT_MAP == {"LEFT", "CENTER", "RIGHT", "JUSTIFY"}

RECURSIVE TextLoop(_, _, _)
\* lines 272-290, iterations i..len(content.paragraphs)
TextLoop(text_frame, content, i) ==
    IF i > Len(content.paragraphs) THEN [ok |-> TRUE, text_frame |-> text_frame]
    ELSE LET tf == ParagraphFor(text_frame, i)
             p == LastParagraph(tf)
             para == content.paragraphs[i]
             styled == _apply_text_style(NewRun(para.text), para.style)
             p1 == [p EXCEPT !.runs = Append(p.runs, styled.run)]
             p2 == IF para.bullet THEN [p1 EXCEPT !.level = para.level] ELSE p1
             p3 == IF IsSome(para.alignment) /\ para.alignment.some \in ALIGNMENT_MAP
                   THEN [p2 EXCEPT !.alignment = para.alignment] ELSE p2
         IN  IF styled.ok THEN TextLoop(SetLast(tf, p3), content, i + 1)
             ELSE [ok |-> FALSE, text_frame |-> SetLast(tf, p1),
                   exc |-> styled.exc, msg |-> styled.msg]

\* lines 263-290
_insert_text_content(text_frame, content) ==
    TextLoop(ClearTextFrame(text_frame), content, 1)

----------------------------------------------------------------------------
(* pptx_generator.py: tables, charts, images *)

\* the cell writes of _insert_table in execution order: <<row, column, text>>
HeaderWrites(content) ==
    IF IsSome(content.headers)
    THEN [c \in DOMAIN content.headers.some |-> <<0, c - 1, content.headers.some[c]>>]
    ELSE <<>>

RECURSIVE RowWrites(_, _, _)
RowWrites(rows, r, row_offset) ==
    IF r > Len(rows) THEN <<>>
    ELSE [c \in DOMAIN rows[r] |-> <<r - 1 + row_offset, c - 1, rows[r][c]>>]
         \o RowWrites(rows, r + 1, row_offset)

RECURSIVE ApplyWrites(_, _, _)
\* table.cell(r, c).text = t for the writes from position i on; table.cell
\* raises IndexError outside the created grid
ApplyWrites(table, writes, i) ==
    IF i > Len(writes) THEN [ok |-> TRUE, table |-> table]
    ELSE IF writes[i][1] >= table.rows \/ writes[i][2] >= table.cols
    THEN [ok |-> FALSE, table |-> table, exc |-> "IndexError",
          msg |-> <<"cell", writes[i][1], writes[i][2]>>]
    ELSE ApplyWrites([table EXCEPT !.cells = Append(table.cells, writes[i])], writes, i + 1)

\* lines 356-397; the table shape is on the slide before the first cell is written
_insert_table(slide, placeholder, content) ==
    LET hasHeaders == IsSome(content.headers) /\ content.headers.some # <<>>
        rows_count == Len(content.rows) + (IF hasHeaders THEN 1 ELSE 0)
        cols_count == IF content.rows # <<>> THEN Len(content.rows[1])
                      ELSE IF IsSome(content.headers) THEN Len(content.headers.some) ELSE 0
        table == [kind |-> "table", rows |-> rows_count, cols |-> cols_count, cells |-> <<>>]
        badHeaderColor ==
            /\ hasHeaders
            /\ IsSome(content.style)
            /\ IsSome(content.style.some.header_bg_color)
            /\ content.style.some.header_bg_color.some # <<>>
            /\ ~_parse_rgb_color(content.style.some.header_bg_color.some).ok
        hdrAll == ApplyWrites(table, IF hasHeaders THEN HeaderWrites(content) ELSE <<>>, 1)
        hdrOne == ApplyWrites(table, SubSeq(HeaderWrites(content), 1, 1), 1)
        hdr == IF ~badHeaderColor THEN hdrAll
               ELSE IF ~hdrOne.ok THEN hdrOne
               ELSE [ok |-> FALSE, table |-> hdrOne.table, exc |-> "ValueError",
                     msg |-> <<"Invalid color format">>]
        body == ApplyWrites(hdr.table, RowWrites(content.rows, 1, IF hasHeaders THEN 1 ELSE 0), 1)
        done == IF hdr.ok THEN body ELSE hdr
    IN  IF done.ok
        THEN [ok |-> TRUE, slide |-> [slide EXCEPT !.shapes = Append(slide.shapes, done.table)]]
        ELSE [ok |-> FALSE, slide |-> [slide EXCEPT !.shapes = Append(slide.shapes, done.table)],
              exc |-> done.exc, msg |-> done.msg]

\* CHART_TYPE_MAP
CHART_TYPE_MAP ==
    [t \in {"bar", "column", "line", "pie", "doughnut", "area"} |->
        CASE t = "bar" -> "BAR_CLUSTERED"
          [] t = "column" -> "COLUMN_CLUSTERED"
          [] t = "line" -> "LINE"
          [] t = "pie" -> "PIE"
          [] t = "doughnut" -> "DOUGHNUT"
          [] t = "area" -> "AREA"]

\* lines 400-427
_insert_chart(slide, placeholder, content) ==
    LET chart == [kind |-> "chart",
                  chart_type |-> IF content.chart_type \in DOMAIN CHART_TYPE_MAP
                                 THEN CHART_TYPE_MAP[content.chart_type]
                                 ELSE "COLUMN_CLUSTERED",
                  categories |-> content.categories,
                  series |-> content.series,
                  title |-> IF IsSome(content.title) /\ content.title.some # "" 
                            THEN content.title ELSE None,
                  has_legend |-> content.show_legend]
    IN  [ok |-> TRUE, slide |-> [slide EXCEPT !.shapes = Append(slide.shapes, chart)]]

\* paths that exist on the local disk
ExistingFiles == {"logo.png"}

\* a plausible slip: the picture is added without looking for the file, and
\* the library raises for a path that does not exist
InsertImageUnchecked(slide, placeholder, content) ==
    IF content.source \notin ExistingFiles
    THEN [ok |-> FALSE, slide |-> slide, exc |-> "FileNotFoundError", msg |-> content.source]
    ELSE [ok |-> TRUE,
          slide |-> [slide EXCEPT !.shapes =
                        Append(slide.shapes, [kind |-> "picture", source |-> content.source,
                                              left |-> placeholder.left, top |-> placeholder.top])]]

\* lines 430-448
_insert_image(slide, placeholder, content) ==
    IF content.source \notin ExistingFiles
    THEN [ok |-> TRUE, slide |-> slide]
    ELSE [ok |-> TRUE,
          slide |-> [slide EXCEPT !.shapes =
                        Append(slide.shapes, [kind |-> "picture", source |-> content.source,
                                              left |-> placeholder.left, top |-> placeholder.top])]]

----------------------------------------------------------------------------
(* PptxGenerator: placing content on placeholders *)

\* a slide with the text frame of placeholder ph replaced
WithTextFrame(slide, ph, text_frame) ==
    [slide EXCEPT !.placeholders[ph].text_frame = text_frame]

\* the outcome of one placement function, as an outcome of _insert_content
Placed(slide, ph, ws, r) ==
    IF r.ok
    THEN [ok |-> TRUE, slide |-> WithTextFrame(slide, ph, r.text_frame), warnings |-> ws]
    ELSE [ok |-> FALSE, slide |-> WithTextFrame(slide, ph, r.text_frame), warnings |-> ws,
          exc |-> r.exc, msg |-> r.msg]

OnSlide(ws, r) ==
    IF r.ok
    THEN [ok |-> TRUE, slide |-> r.slide, warnings |-> ws]
    ELSE [ok |-> FALSE, slide |-> r.slide, warnings |-> ws, exc |-> r.exc, msg |-> r.msg]

\* lines 706-727: dispatch on the kind of content
InsertByKind(slide, ph, ws, content) ==
    LET placeholder == slide.placeholders[ph]
        text_frame == placeholder.text_frame
    IN  CASE content.kind = "str" ->
               Placed(slide, ph, ws, _insert_simple_text(text_frame, content.text))
          [] content.kind = "list" ->
               Placed(slide, ph, ws, _insert_simple_bullets(text_frame, content.items))
          [] content.kind = "text" ->
               Placed(slide, ph, ws, _insert_text_content(text_frame, content))
          [] content.kind = "bullets" ->
               Placed(slide, ph, ws, _insert_bullet_content(text_frame, content))
          [] content.kind = "table" -> OnSlide(ws, _insert_table(slide, placeholder, content))
          [] content.kind = "chart" -> OnSlide(ws, _insert_chart(slide, placeholder, content))
          [] content.kind = "image" -> OnSlide(ws, _insert_image(slide, placeholder, content))

\* a plausible slip: an unresolved key is skipped without a warning
InsertContentSilentSkip(slide, ws, placeholder_key, content) ==
    LET found == _resolve_placeholder(slide, placeholder_key)
    IN  IF ~found.ok
        THEN [ok |-> FALSE, slide |-> slide, warnings |-> ws,
              exc |-> found.exc, msg |-> found.msg]
        ELSE IF IsNone(found.value)
        THEN [ok |-> TRUE, slide |-> slide, warnings |-> ws]
        ELSE IF ~slide.placeholders[found.value.some].has_text_frame
        THEN [ok |-> TRUE, slide |-> slide,
              warnings |-> Append(ws, <<"Placeholder has no text frame: ", placeholder_key>>)]
        ELSE InsertByKind(slide, found.value.some, ws, content)

\* PptxGenerator._insert_content, lines 679-727: the slide and the warning
\* list afterwards; ok is FALSE when an exception left the method
_insert_content(slide, ws, placeholder_key, content) ==
    LET found == _resolve_placeholder(slide, placeholder_key)
    IN  IF ~found.ok
        THEN [ok |-> FALSE, slide |-> slide, warnings |-> ws,
              exc |-> found.exc, msg |-> found.msg]
        ELSE IF IsNone(found.value)
        THEN [ok |-> TRUE, slide |-> slide,
              warnings |-> Append(ws, <<"Placeholder not found: ", placeholder_key>>)]
        ELSE IF ~slide.placeholders[found.value.some].has_text_frame
        THEN [ok |-> TRUE, slide |-> slide,
              warnings |-> Append(ws, <<"Placeholder has no text frame: ", placeholder_key>>)]
        ELSE InsertByKind(slide, found.value.some, ws, content)

\* BulletContent(items=L, style=...) for a list of strings
BulletContent(items, style) ==
    [kind |-> "bullets", items |-> [i \in DOMAIN items |-> StrItem(items[i])], style |-> style]

ListContent(items) == [kind |-> "list", items |-> items]
StrContent(text) == [kind |-> "str", text |-> text]
TextContent(paragraphs) == [kind |-> "text", paragraphs |-> paragraphs]

----------------------------------------------------------------------------
(* Placing a list of strings, bare and wrapped as BulletContent *)

KeyNameBo == <<"B","o">>

\* text frames a placeholder may hold before content is placed
UsedTextFrame ==
    <<[level |-> 2, alignment |-> Some("CENTER"), runs |-> <<NewRun("old")>>],
      [level |-> 1, alignment |-> None, runs |-> <<NewRun("older")>>]>>

InsertSlides ==
    { NewSlide(<<1, 1>>,
               <<SlidePlaceholder(PhTitle),
                 [SlidePlaceholder(PhBody) EXCEPT !.text_frame = tf],
                 SlidePlaceholder(PhPic)>>) :
        tf \in { EmptyTextFrame, UsedTextFrame, <<[EmptyParagraph EXCEPT !.level = 3]>> } }

ItemTexts == { "a", "b", "" }

\* _insert_content(slide, key, L) and _insert_content(slide, key, BulletContent(items=L))
\* on the same slide
PlaceList ==
    /\ Idle
    /\ \E slide \in InsertSlides, key \in {IdxKey(0), IdxKey(1), IdxKey(2), IdxKey(5), KeyNameBo},
          items \in SeqsUpTo(ItemTexts, MaxItems) :
          /\ call' = Some([slide |-> slide, key |-> key, items |-> items])
          /\ ret' = Some([bare |-> _insert_content(slide, <<>>, key, ListContent(items)),
                          wrapped |-> _insert_content(slide, <<>>, key, BulletContent(items, None))])
    /\ UNCHANGED <<prs, meta, genVars, storeVars>>

\* C5: a bare list L and BulletContent(items=L) without style leave the same
\* paragraphs on the placeholder: one per item, in order, with the item's text,
\* at level 0.
C5_BareListLikeBullets ==
    Called("items") =>
        /\ ret.some.bare = ret.some.wrapped
        /\ \A ph \in DOMAIN call.some.slide.placeholders :
              LET before == call.some.slide.placeholders[ph].text_frame
                  after == ret.some.wrapped.slide.placeholders[ph].text_frame
                  items == call.some.items
              IN  after # before =>
                    /\ Len(after) = (IF items = <<>> THEN 1 ELSE Len(items))
                    /\ \A i \in DOMAIN items :
                          /\ after[i].level = 0
                          /\ after[i].runs = <<NewRun(items[i])>>

\* C5 witness: ["a", "b"] placed on a placeholder that held two other paragraphs
C5_Witness ==
    /\ Called("items")
    /\ call.some.items = <<"a", "b">>
    /\ call.some.key = IdxKey(1)
    /\ call.some.slide.placeholders[2].text_frame = UsedTextFrame
    /\ ret.some.bare.ok
    /\ Len(ret.some.bare.slide.placeholders[2].text_frame) = 2
    /\ ret.some.wrapped.slide.placeholders[2].text_frame[1].runs = <<NewRun("a")>>
    /\ ret.some.wrapped.slide.placeholders[2].text_frame[2].runs = <<NewRun("b")>>
    /\ ret.some.wrapped.slide.placeholders[2].text_frame[1].level = 0

----------------------------------------------------------------------------
(* PptxGenerator: free shapes *)

NewShape(kind) == [kind |-> kind, fill |-> None, line |-> None, text |-> None]

\* _add_shape / _add_textbox / _add_connector, lines 474-583: the shape is added
\* to the slide first; a colour that does not parse raises afterwards
AddShapeByKind(slide, content) ==
    LET fill == IF IsSome(content.fill_color) /\ content.fill_color.some # <<>>
                THEN _parse_rgb_color(content.fill_color.some) ELSE Ok(<<>>)
        line == IF IsSome(content.line_color) /\ content.line_color.some # <<>>
                THEN _parse_rgb_color(content.line_color.some) ELSE Ok(<<>>)
        kind == CASE content.kind = "shape" -> "autoshape"
                  [] content.kind = "textbox" -> "textbox"
                  [] content.kind = "connector" -> "connector"
        s0 == NewShape(kind)
        s1 == IF content.kind = "textbox" THEN [s0 EXCEPT !.text = Some(content.text)] ELSE s0
        s2 == IF fill.ok /\ fill.value # <<>> THEN [s1 EXCEPT !.fill = Some(fill.value)] ELSE s1
        s3 == IF line.ok /\ line.value # <<>> THEN [s2 EXCEPT !.line = Some(line.value)] ELSE s2
        s4 == IF content.kind = "shape" /\ IsSome(content.text) /\ content.text.some # ""
              THEN [s3 EXCEPT !.text = content.text] ELSE s3
    IN  IF content.kind = "connector"
        THEN IF line.ok
             THEN [ok |-> TRUE, slide |-> [slide EXCEPT !.shapes = Append(slide.shapes, s3)]]
             ELSE [ok |-> FALSE, slide |-> [slide EXCEPT !.shapes = Append(slide.shapes, s0)],
                   exc |-> line.exc, msg |-> line.msg]
        ELSE IF ~fill.ok
        THEN [ok |-> FALSE, slide |-> [slide EXCEPT !.shapes = Append(slide.shapes, s1)],
              exc |-> fill.exc, msg |-> fill.msg]
        ELSE IF ~line.ok
        THEN [ok |-> FALSE, slide |-> [slide EXCEPT !.shapes = Append(slide.shapes, s2)],
              exc |-> line.exc, msg |-> line.msg]
        ELSE [ok |-> TRUE, slide |-> [slide EXCEPT !.shapes = Append(slide.shapes, s4)]]

\* a plausible slip: a shape that fails to be placed is passed over in silence
AddShapeFailsSilently(slide, ws, content) ==
    [slide |-> AddShapeByKind(slide, content).slide, warnings |-> ws]

\* PptxGenerator._add_shape_to_slide, lines 663-677: any exception becomes a warning
_add_shape_to_slide(slide, ws, content) ==
    LET r == AddShapeByKind(slide, content)
    IN  IF r.ok THEN [slide |-> r.slide, warnings |-> ws]
        ELSE [slide |-> r.slide,
              warnings |-> Append(ws, <<"Failed to add shape: ", r.msg>>)]

----------------------------------------------------------------------------
(* generate_pptx and PptxGenerator.add_slide, statement by statement *)

Entry(key, content) == [key |-> key, content |-> content]

SlideDefinition(layout_name, layout_index, contents, shapes, speaker_notes) ==
    [layout_name |-> layout_name, layout_index |-> layout_index, contents |-> contents,
     shapes |-> shapes, speaker_notes |-> speaker_notes]

\* prs.slides.add_slide(layout): the new slide gets a placeholder for every
\* layout placeholder except date, footer and slide number
SlideFromLayout(layout) ==
    LET Cloneable(ph) == ph.type \notin {"DATE", "FOOTER", "SLIDE_NUMBER"}
        cloned == SelectSeq(layout.placeholders, Cloneable)
    IN  NewSlide(layout.id, [i \in DOMAIN cloned |-> SlidePlaceholder(cloned[i])])

\* a plausible slip: the shapes are placed before the content entries
StageShapesFirst(definition, stage) ==
    IF stage = "contents" /\ definition.shapes # <<>> THEN "shapes"
    ELSE IF stage \in {"contents", "shapes"} /\ definition.contents # <<>> THEN "contents"
    ELSE "notes"

\* where add_slide continues after the statement group `stage` is exhausted
StageFrom(definition, stage) ==
    IF stage = "contents" /\ definition.contents # <<>> THEN "contents"
    ELSE IF stage \in {"contents", "shapes"} /\ definition.shapes # <<>> THEN "shapes"
    ELSE "notes"

\* a plausible slip: the slides of the template file stay in the presentation
StartKeepingSlides(defs) ==
    /\ prs' = prs
    /\ warnings' = <<>>
    /\ slides' = defs
    /\ k' = 1
    /\ e' = 1
    /\ pc' = IF defs = <<>> THEN "save" ELSE "add_slide"
    /\ UNCHANGED <<meta, ret, result, output, storeVars>>

\* generate_pptx(template_path, slides, output_path, template_meta): lines 802-804,
\* the generator is constructed and the template's own slides are removed
StartGeneration(defs) ==
    /\ prs' = [prs EXCEPT !.slides = <<>>]
    /\ warnings' = <<>>
    /\ slides' = defs
    /\ k' = 1
    /\ e' = 1
    /\ pc' = IF defs = <<>> THEN "save" ELSE "add_slide"
    /\ UNCHANGED <<meta, ret, result, output, storeVars>>

Fail(err) ==
    /\ pc' = "failed"
    /\ result' = Some(Raise(err.exc, err.msg))

\* a plausible slip: a slide whose layout cannot be resolved is skipped
AddSlideSkipsOnError ==
    /\ pc = "add_slide"
    /\ \E layout \in { _find_layout_by_name_or_index(prs, slides[k].layout_name,
                                                      slides[k].layout_index, meta) } :
           IF layout.ok
           THEN /\ prs' = [prs EXCEPT !.slides = Append(prs.slides, SlideFromLayout(layout.value))]
                /\ pc' = StageFrom(slides[k], "contents")
                /\ e' = 1
                /\ UNCHANGED <<k, result>>
           ELSE /\ k' = k + 1
                /\ pc' = IF k < Len(slides) THEN "add_slide" ELSE "save"
                /\ UNCHANGED <<prs, e, result>>
    /\ UNCHANGED <<meta, call, ret, slides, warnings, output, storeVars>>

\* add_slide lines 638-646: resolve the layout and add the slide
AddSlide ==
    /\ pc = "add_slide"
    /\ \E layout \in { _find_layout_by_name_or_index(prs, slides[k].layout_name,
                                                      slides[k].layout_index, meta) } :
           IF layout.ok
           THEN /\ prs' = [prs EXCEPT !.slides = Append(prs.slides, SlideFromLayout(layout.value))]
                /\ pc' = StageFrom(slides[k], "contents")
                /\ e' = 1
                /\ UNCHANGED <<k, result>>
           ELSE /\ Fail(layout)
                /\ UNCHANGED <<prs, k, e>>
    /\ UNCHANGED <<meta, call, ret, slides, warnings, output, storeVars>>

\* the slide being assembled is the last one added
CurrentSlide == prs.slides[Len(prs.slides)]

\* add_slide lines 649-650: one iteration of the loop over definition.contents
InsertContent ==
    /\ pc = "contents"
    /\ \E r \in { _insert_content(CurrentSlide, warnings, slides[k].contents[e].key,
                                    slides[k].contents[e].content) } :
           /\ prs' = [prs EXCEPT !.slides[Len(prs.slides)] = r.slide]
           /\ warnings' = r.warnings
           /\ IF r.ok
              THEN /\ e' = IF e < Len(slides[k].contents) THEN e + 1 ELSE 1
                   /\ pc' = IF e < Len(slides[k].contents) THEN "contents"
                            ELSE StageFrom(slides[k], "shapes")
                   /\ UNCHANGED result
              ELSE /\ Fail(r)
                   /\ UNCHANGED e
    /\ UNCHANGED <<meta, call, ret, slides, k, output, storeVars>>

\* add_slide lines 653-654: one iteration of the loop over definition.shapes
AddShape ==
    /\ pc = "shapes"
    /\ \E r \in { _add_shape_to_slide(CurrentSlide, warnings, slides[k].shapes[e]) } :
           /\ prs' = [prs EXCEPT !.slides[Len(prs.slides)] = r.slide]
           /\ warnings' = r.warnings
           /\ e' = IF e < Len(slides[k].shapes) THEN e + 1 ELSE 1
           /\ pc' = IF e < Len(slides[k].shapes) THEN "shapes" ELSE "notes"
    /\ UNCHANGED <<meta, call, ret, slides, k, result, output, storeVars>>

\* add_slide lines 657-661 and the loop of generate_pptx, line 804
SpeakerNotes ==
    /\ pc = "notes"
    /\ LET definition == slides[k]
       IN  prs' = IF IsSome(definition.speaker_notes) /\ definition.speaker_notes.some # ""
                  THEN [prs EXCEPT !.slides[Len(prs.slides)].notes = definition.speaker_notes]
                  ELSE prs
    /\ k' = k + 1
    /\ e' = 1
    /\ pc' = IF k < Len(slides) THEN "add_slide" ELSE "save"
    /\ UNCHANGED <<meta, call, ret, slides, warnings, result, output, storeVars>>

\* generate_pptx lines 807-809: save and return (path, warnings)
Save ==
    /\ pc = "save"
    /\ output' = Some(prs.slides)
    /\ result' = Some(Ok([path |-> "out.pptx", warnings |-> warnings]))
    /\ pc' = "done"
    /\ UNCHANGED <<prs, meta, call, ret, slides, k, e, warnings, storeVars>>

----------------------------------------------------------------------------
(* generate_from_ai_json: normalisation of the AI output *)

\* JSON values: strings, lists, objects (a record of the object's members) and
\* the scalars that are neither (numbers, booleans, null)
RawStr(text) == [kind |-> "str", text |-> text]
RawList(items) == [kind |-> "list", items |-> items]
RawDict(d) == [kind |-> "dict", d |-> d]
RawNum(n) == [kind |-> "num", value |-> n]

\* dict.get(key, default)
Get(d, key, default) == IF key \in DOMAIN d THEN d[key] ELSE default
\* dict.get(key)
GetOpt(d, key) == IF key \in DOMAIN d THEN Some(d[key]) ELSE None

ValidationError(model, field) == Raise("ValidationError", <<model, field>>)

ContentTypeValues == {"text", "bullets", "image", "table", "chart"}

\* the `type: ContentType` field every content model has
TypeFieldValid(d) == "type" \in DOMAIN d => d.type \in ContentTypeValues

\* TextStyle(**d): every field has a default
ConstructTextStyle(d) ==
    TextStyle(Get(d, "bold", FALSE), GetOpt(d, "font_size"),
              GetOpt(d, "color"), GetOpt(d, "theme_color"))

\* ParagraphContent(**d): text is required, level must be within 0..8
ConstructParagraph(d) ==
    IF "text" \notin DOMAIN d THEN ValidationError("ParagraphContent", "text")
    ELSE IF Get(d, "level", 0) \notin 0..8 THEN ValidationError("ParagraphContent", "level")
    ELSE Ok(ParagraphContent(d.text,
                             IF "style" \in DOMAIN d THEN Some(ConstructTextStyle(d.style)) ELSE None,
                             Get(d, "bullet", FALSE), Get(d, "level", 0),
                             GetOpt(d, "alignment")))

\* TextContent(**d)
ConstructTextContent(d) ==
    IF "paragraphs" \notin DOMAIN d THEN ValidationError("TextContent", "paragraphs")
    ELSE IF ~TypeFieldValid(d) THEN ValidationError("TextContent", "type")
    ELSE IF \E i \in DOMAIN d.paragraphs :
               ~(d.paragraphs[i].kind = "dict" /\ ConstructParagraph(d.paragraphs[i].d).ok)
    THEN ValidationError("TextContent", "paragraphs")
    ELSE Ok(TextContent([i \in DOMAIN d.paragraphs |-> ConstructParagraph(d.paragraphs[i].d).value]))

\* BulletContent(**d): items of str | ParagraphContent
ConstructBulletContent(d) ==
    IF "items" \notin DOMAIN d THEN ValidationError("BulletContent", "items")
    ELSE IF ~TypeFieldValid(d) THEN ValidationError("BulletContent", "type")
    ELSE IF \E i \in DOMAIN d.items :
               ~(\/ d.items[i].kind = "str"
                 \/ d.items[i].kind = "dict" /\ ConstructParagraph(d.items[i].d).ok)
    THEN ValidationError("BulletContent", "items")
    ELSE Ok([kind |-> "bullets",
             items |-> [i \in DOMAIN d.items |->
                          IF d.items[i].kind = "str" THEN StrItem(d.items[i].text)
                          ELSE ConstructParagraph(d.items[i].d).value],
             style |-> IF "style" \in DOMAIN d THEN Some(ConstructTextStyle(d.style)) ELSE None])

\* TableContent(**d): rows is required
ConstructTableContent(d) ==
    IF "rows" \notin DOMAIN d THEN ValidationError("TableContent", "rows")
    ELSE IF ~TypeFieldValid(d) THEN ValidationError("TableContent", "type")
    ELSE Ok([kind |-> "table", headers |-> GetOpt(d, "headers"), rows |-> d.rows,
             style |-> IF "style" \in DOMAIN d
                       THEN Some([header_bg_color |-> GetOpt(d.style, "header_bg_color")])
                       ELSE None])

ChartTypeValues == {"bar", "column", "line", "pie", "doughnut", "area"}

\* ChartContent(**d): chart_type, categories and series are required
ConstructChartContent(d) ==
    IF "chart_type" \notin DOMAIN d THEN ValidationError("ChartContent", "chart_type")
    ELSE IF d.chart_type \notin ChartTypeValues THEN ValidationError("ChartContent", "chart_type")
    ELSE IF "categories" \notin DOMAIN d THEN ValidationError("ChartContent", "categories")
    ELSE IF "series" \notin DOMAIN d THEN ValidationError("ChartContent", "series")
    ELSE IF \E i \in DOMAIN d.series : ~({"name", "values"} \subseteq DOMAIN d.series[i])
    THEN ValidationError("ChartContent", "series")
    ELSE IF ~TypeFieldValid(d) THEN ValidationError("ChartContent", "type")
    ELSE Ok([kind |-> "chart", chart_type |-> d.chart_type, title |-> GetOpt(d, "title"),
             categories |-> d.categories,
             series |-> [i \in DOMAIN d.series |->
                           [name |-> d.series[i].name, values |-> d.series[i].values]],
             show_legend |-> Get(d, "show_legend", TRUE)])

\* ImageContent(**d): source is required
ConstructImageContent(d) ==
    IF "source" \notin DOMAIN d THEN ValidationError("ImageContent", "source")
    ELSE IF ~TypeFieldValid(d) THEN ValidationError("ImageContent", "type")
    ELSE Ok([kind |-> "image", source |-> d.source, alt_text |-> GetOpt(d, "alt_text")])

RECURSIVE MixedListParagraphs(_, _)
\* lines 889-894: strings and objects become paragraphs, anything else adds
\* nothing; ParagraphContent(**item) may raise
MixedListParagraphs(items, i) ==
    IF i > Len(items) THEN Ok(<<>>)
    ELSE LET rest == MixedListParagraphs(items, i + 1)
             here == CASE items[i].kind = "str" ->
                            Ok(<<ParagraphContent(items[i].text, None, FALSE, 0, None)>>)
                       [] items[i].kind = "dict" ->
                            LET c == ConstructParagraph(items[i].d)
                            IN  IF c.ok THEN Ok(<<c.value>>) ELSE c
                       [] OTHER -> Ok(<<>>)
         IN  IF ~here.ok THEN here
             ELSE IF ~rest.ok THEN rest
             ELSE Ok(here.value \o rest.value)

\* a plausible slip: only the discriminator decides, a map without one is
\* always stringified
NormalizeDictTypeOnly(d) ==
    LET content_type == GetOpt(d, "type")
    IN  IF content_type = Some("text") THEN ConstructTextContent(d)
        ELSE IF content_type = Some("bullets") THEN ConstructBulletContent(d)
        ELSE IF content_type = Some("table") THEN ConstructTableContent(d)
        ELSE IF content_type = Some("chart") THEN ConstructChartContent(d)
        ELSE IF content_type = Some("image") THEN ConstructImageContent(d)
        ELSE Ok([kind |-> "str", text |-> [repr |-> d]])

\* lines 896-915: an object is constructed as the variant its type names
NormalizeDict(d) ==
    LET content_type == GetOpt(d, "type")
    IN  IF content_type = Some("text") THEN ConstructTextContent(d)
        ELSE IF content_type = Some("bullets") THEN ConstructBulletContent(d)
        ELSE IF content_type = Some("table") THEN ConstructTableContent(d)
        ELSE IF content_type = Some("chart") THEN ConstructChartContent(d)
        ELSE IF content_type = Some("image") THEN ConstructImageContent(d)
        ELSE IF "paragraphs" \in DOMAIN d THEN ConstructTextContent(d)
        ELSE Ok([kind |-> "str", text |-> [repr |-> d]])

\* lines 881-915 for one value: Ok(Some(content)), Ok(None) when no branch
\* stores anything, or the exception of a model constructor
NormalizeValue(value) ==
    CASE value.kind = "str" -> Ok(Some(StrContent(value.text)))
      [] value.kind = "list" ->
           IF \A i \in DOMAIN value.items : value.items[i].kind = "str"
           THEN Ok(Some(ListContent([i \in DOMAIN value.items |-> value.items[i].text])))
           ELSE LET ps == MixedListParagraphs(value.items, 1)
                IN  IF ps.ok THEN Ok(Some(TextContent(ps.value))) ELSE ps
      [] value.kind = "dict" ->
           LET c == NormalizeDict(value.d)
           IN  IF c.ok THEN Ok(Some(c.value)) ELSE c
      [] OTHER -> Ok(None)

RECURSIVE NormalizeLoop(_, _)
\* lines 880-915, iterations i..len(contents): the first exception leaves the
\* function
NormalizeLoop(contents, i) ==
    IF i > Len(contents) THEN Ok(<<>>)
    ELSE LET v == NormalizeValue(contents[i].content)
             rest == NormalizeLoop(contents, i + 1)
         IN  IF ~v.ok THEN v
             ELSE IF ~rest.ok THEN rest
             ELSE IF IsNone(v.value) THEN rest
             ELSE Ok(<<Entry(contents[i].key, v.value.some)>> \o rest.value)

\* lines 872-917
_normalize_contents(contents) == NormalizeLoop(contents, 1)

\* fields a shape item cannot be built without: the geometry its placement reads
RequiredShapeFields(shape_type) ==
    CASE shape_type = "shape" -> {"left", "top", "width", "height"}
      [] shape_type = "textbox" -> {"left", "top", "width", "height", "text"}
      [] shape_type = "connector" -> {"start_x", "start_y", "end_x", "end_y"}

\* ShapeContent(**d), TextBoxContent(**d), ConnectorContent(**d)
ConstructShapeItem(shape_type, d) ==
    IF ~(RequiredShapeFields(shape_type) \subseteq DOMAIN d)
    THEN ValidationError(shape_type, "geometry")
    ELSE Ok([kind |-> shape_type,
             fill_color |-> GetOpt(d, "fill_color"),
             line_color |-> GetOpt(d, "line_color"),
             text |-> IF shape_type = "textbox" THEN d.text ELSE GetOpt(d, "text")])

RECURSIVE NormalizeShapesLoop(_, _)
\* lines 855-867, iterations i..len(shapes_data): an item that fails to
\* construct, or whose type is none of the three, adds nothing
NormalizeShapesLoop(shapes_data, i) ==
    IF i > Len(shapes_data) THEN <<>>
    ELSE LET shape_type == Get(shapes_data[i], "type", "shape")
             rest == NormalizeShapesLoop(shapes_data, i + 1)
         IN  IF shape_type \notin {"shape", "textbox", "connector"} THEN rest
             ELSE LET c == ConstructShapeItem(shape_type, shapes_data[i])
                  IN  IF c.ok THEN <<c.value>> \o rest ELSE rest

\* lines 847-869
_normalize_shapes(shapes_data) == NormalizeShapesLoop(shapes_data, 1)

\* Python's `a or b` for two dict.get results; falsy is the value of the
\* operand's type that is false (0, "", the empty string of characters)
PyOr(a, b, falsy) == IF IsSome(a) /\ a.some # falsy THEN a ELSE b

\* lines 835-841: the SlideDefinition of one element of ai_output["slides"],
\* or the exception of _normalize_contents
SlideDefinitionOf(slide_data) ==
    LET contents == _normalize_contents(Get(slide_data, "content", <<>>))
    IN  IF ~contents.ok THEN contents
        ELSE Ok(SlideDefinition(
                  PyOr(GetOpt(slide_data, "layoutName"),
                       GetOpt(slide_data, "layout_name"), <<>>),
                  PyOr(GetOpt(slide_data, "layoutIndex"),
                       GetOpt(slide_data, "layout_index"), 0),
                  contents.value,
                  _normalize_shapes(Get(slide_data, "shapes", <<>>)),
                  PyOr(GetOpt(slide_data, "speakerNotes"),
                       GetOpt(slide_data, "speaker_notes"), "")))

RECURSIVE SlideDefinitionsOf(_, _)
\* lines 832-842, iterations i..len(slides_data)
SlideDefinitionsOf(slides_data, i) ==
    IF i > Len(slides_data) THEN Ok(<<>>)
    ELSE LET here == SlideDefinitionOf(slides_data[i])
             rest == SlideDefinitionsOf(slides_data, i + 1)
         IN  IF ~here.ok THEN here
             ELSE IF ~rest.ok THEN rest
             ELSE Ok(<<here.value>> \o rest.value)

----------------------------------------------------------------------------
(* Generation requests *)

MaxEntries == 2

NameAb == <<"A","b">>
BadColor == <<"r","e","d">>

\* a template with one master and one with two, each with the layouts
\* "Ab" (title, body) and "a" (title, picture, footer)
\* (template, template_meta) pairs a generator is constructed with; every
\* template holds one slide of its own
GenSetups ==
    LET Ab == [name |-> NameAb, placeholders |-> <<PhTitle, PhBody>>]
        Pic == [name |-> <<"a">>, placeholders |-> <<PhTitle, PhPic, PhFooter>>]
        Template(ms) == [masters |-> WithIds(ms),
                         slides |-> <<SlideFromLayout(WithIds(ms)[1][1])>>]
    IN  { [prs |-> Template(<<<<Ab, Pic>>>>), meta |-> None],
          [prs |-> Template(<<<<Ab>>, <<Pic>>>>),
           meta |-> Some([custom_config |->
                            Some([layout_aliases |-> [n \in {<<"x">>} |-> 1]])])] }

ShapeItem(kind, fill_color, text) ==
    [kind |-> kind, fill_color |-> fill_color, line_color |-> None, text |-> text]

\* slide definitions handed to generate_pptx
SlideDefs ==
    { SlideDefinition(Some(NameAb), None,
                      <<Entry(IdxKey(0), StrContent("Hello")),
                        Entry(IdxKey(1), ListContent(<<"A", "B">>))>>, <<>>, None),
      SlideDefinition(Some(NameAb), None,
                      <<Entry(IdxKey(5), StrContent("lost")),
                        Entry(IdxKey(1), BulletContent(<<"A">>, None))>>, <<>>, Some("note")),
      SlideDefinition(None, None, <<>>, <<>>, None),
      SlideDefinition(Some(<<"x">>), Some(1),
                      <<Entry(IdxKey(2), StrContent("pic")),
                        Entry(TypePrefix \o PlaceholderTypeValues["TITLE"], StrContent("T"))>>, <<>>, None),
      SlideDefinition(None, Some(2), <<>>, <<>>, None),
      SlideDefinition(Some(<<"x">>), None, <<Entry(IdxKey(0), StrContent("T"))>>, <<>>, None),
      SlideDefinition(None, None,
                      <<Entry(IdxKey(0), TextContent(<<ParagraphContent("p",
                                 Some(TextStyle(TRUE, None, Some(BadColor), None)),
                                 FALSE, 0, None)>>)),
                        Entry(IdxKey(1), StrContent("after"))>>, <<>>, None),
      SlideDefinition(None, None,
                      <<Entry(IdxPrefix \o <<"a">>, StrContent("T")),
                        Entry(IdxKey(0), StrContent("after"))>>, <<>>, None),
      SlideDefinition(None, Some(0), <<Entry(KeyNameBo, StrContent("body"))>>,
                      <<ShapeItem("shape", Some(BadColor), None),
                        ShapeItem("textbox", None, "box")>>, Some("")),
      SlideDefinition(None, None,
                      <<Entry(IdxKey(1), [kind |-> "image", source |-> "missing.png"]),
                        Entry(IdxKey(0), StrContent("T"))>>, <<>>, None) }

\* values of a content map in the AI output
RawValues ==
    { RawStr("Hello"),
      RawList(<<RawStr("A"), RawStr("B")>>),
      RawList(<<RawStr("A"), RawDict([bullet |-> TRUE])>>),
      RawList(<<RawDict([text |-> "p", level |-> 1]), RawStr("A")>>),
      RawList(<<RawStr("A"), RawNum(3)>>),
      RawNum(3),
      RawDict([type |-> "text", paragraphs |-> <<RawDict([text |-> "p"])>>]),
      RawDict([type |-> "text"]),
      RawDict([type |-> "bullets", items |-> <<RawStr("x")>>, colour |-> "red"]),
      RawDict([type |-> "chart", chartType |-> "bar", categories |-> <<"Q1">>,
               series |-> <<>>]),
      RawDict([type |-> "image"]),
      RawDict([title |-> "t"]),
      RawDict([paragraphs |-> <<RawDict([text |-> "p"]), RawDict([text |-> "q", bullet |-> TRUE])>>]) }

\* content maps with up to MaxEntries entries, in insertion order
RawContents ==
    { [i \in DOMAIN vs |-> Entry(IdxKey(i - 1), vs[i])] : vs \in SeqsUpTo(RawValues, MaxEntries) }

\* elements of ai_output["slides"]
RawSlides ==
    { [layoutName |-> NameAb,
       content |-> <<Entry(IdxKey(0), RawStr("Hello")),
                     Entry(IdxKey(1), RawList(<<RawStr("A"), RawStr("B")>>))>>],
      [layoutName |-> <<"a">>, layoutIndex |-> 0],
      [layoutName |-> NameAb, layoutIndex |-> 1],
      [layoutName |-> <<"q">>, layoutIndex |-> 0],
      [layout_name |-> NameAb, layout_index |-> 5],
      [layoutIndex |-> 0, layout_index |-> 1],
      [content |-> <<Entry(IdxKey(0), RawDict([type |-> "text"])),
                     Entry(IdxKey(1), RawStr("kept"))>>],
      [shapes |-> <<[type |-> "shape", text |-> "no geometry"],
                    [left |-> 1, top |-> 1, width |-> 2, height |-> 1, fill_color |-> BadColor],
                    [type |-> "star"],
                    [type |-> "textbox", left |-> 1, top |-> 1, width |-> 2, height |-> 1,
                     text |-> "box"]>>,
       speakerNotes |-> "", speaker_notes |-> "n"],
      [shapes |-> <<[type |-> "connector", start_x |-> 0]>>],
      [layoutName |-> NameAb,
       content |-> <<Entry(IdxKey(1),
                           RawDict([type |-> "chart", chartType |-> "bar",
                                    categories |-> <<"Q1", "Q2">>,
                                    series |-> <<[name |-> "Rev", values |-> <<10, 20>>]>>]))>>],
      [layout_name |-> <<>>,
       content |-> <<Entry(IdxKey(5), RawStr("lost")), Entry(IdxKey(0), RawNum(1)),
                     Entry(IdxKey(1), RawStr("kept"))>>] }

\* generate_pptx(template_path, slides, output_path, template_meta)
GeneratePptx ==
    /\ pc = "idle"
    /\ \E defs \in SeqsUpTo(SlideDefs, MaxSlides) :
          /\ call' = Some([op |-> "generate_pptx", slides |-> defs])
          /\ StartGeneration(defs)

\* generate_from_ai_json(template_path, ai_output, output_path, template_meta):
\* every slide is converted before the generator is constructed
GenerateFromAiJson ==
    /\ pc = "idle"
    /\ \E slides_data \in SeqsUpTo(RawSlides, MaxSlides) :
          /\ call' = Some([op |-> "generate_from_ai_json", slides |-> slides_data])
          /\ \E defs \in { SlideDefinitionsOf(slides_data, 1) } :
                IF defs.ok THEN StartGeneration(defs.value)
                ELSE /\ Fail(defs)
                     /\ UNCHANGED <<prs, meta, ret, slides, k, e, warnings, output, storeVars>>

InitGen ==
    /\ \E setup \in GenSetups : prs = setup.prs /\ meta = setup.meta
    /\ call = None
    /\ ret = None
    /\ slides = <<>>
    /\ pc = "idle"
    /\ k = 0
    /\ e = 0
    /\ warnings = <<>>
    /\ result = None
    /\ output = None
    /\ InitStore

NextGen ==
    \/ GeneratePptx
    \/ GenerateFromAiJson
    \/ AddSlide
    \/ InsertContent
    \/ AddShape
    \/ SpeakerNotes
    \/ Save

SpecGen == InitGen /\ [][NextGen]_vars

\* _normalize_contents(contents)
NormalizeContents ==
    /\ Idle
    /\ \E contents \in RawContents :
          /\ call' = Some([contents |-> contents])
          /\ ret' = Some(_normalize_contents(contents))
    /\ UNCHANGED <<prs, meta, genVars, storeVars>>

\* content-map keys: idx keys with and without an integer after the prefix,
\* type keys with and without an enum value after the prefix, plain names
ResolveKeys ==
    { IdxKey(0), IdxKey(1), IdxKey(5), IdxPrefix \o <<" ", "1">>, IdxPrefix \o <<"a">>,
      IdxPrefix,
      TypePrefix \o PlaceholderTypeValues["TITLE"], TypePrefix \o PlaceholderTypeValues["BODY"],
      TypePrefix \o PlaceholderTypeValues["PICTURE"], TypePrefix \o <<"t", "i">>, TypePrefix,
      <<"B", "o">>, <<"i", "d", "x">>, <<"x">> }

\* PptxGenerator._resolve_placeholder(slide, key)
ResolvePlaceholder ==
    /\ Idle
    /\ \E slide \in FindSlides, key \in ResolveKeys :
          /\ call' = Some([slide |-> slide, placeholder_key |-> key])
          /\ ret' = Some(_resolve_placeholder(slide, key))
    /\ UNCHANGED <<prs, meta, genVars, storeVars>>

\* TableContent values: headers absent, empty, or of one or two cells; up to
\* two data rows of no, one or two cells each
TableContents ==
    { [kind |-> "table", headers |-> headers, rows |-> rows, style |-> None] :
        headers \in OptOf(SeqsUpTo({"h"}, 2)),
        rows \in SeqsUpTo(SeqsUpTo({"c"}, 2), 2) }

\* _insert_table(slide, placeholder, content)
InsertTable ==
    /\ Idle
    /\ \E content \in TableContents :
          \E slide \in { NewSlide(<<0, 0>>, <<SlidePlaceholder(PhBody)>>) } :
             /\ call' = Some([table_content |-> content])
             /\ ret' = Some(_insert_table(slide, slide.placeholders[1], content))
    /\ UNCHANGED <<prs, meta, genVars, storeVars>>

\* calls of the functions of pptx_generator.py that need no generator
InitCalls ==
    /\ prs = [masters |-> <<>>, slides |-> <<>>]
    /\ InitCommon

NextCalls ==
    \/ FindPlaceholder
    \/ PlaceList
    \/ NormalizeContents
    \/ ResolvePlaceholder
    \/ InsertTable
    \/ Return

SpecCalls == InitCalls /\ [][NextCalls]_vars

----------------------------------------------------------------------------
(* Properties of layout numbering and layout resolution *)

\* the layout objects of a presentation
LayoutObjects(p) ==
    UNION { { p.masters[m][l] : l \in DOMAIN p.masters[m] } : m \in DOMAIN p.masters }

RECURSIVE LayoutsBefore(_, _)
\* number of layouts in the masters before master m
LayoutsBefore(p, m) ==
    IF m <= 1 THEN 0 ELSE Len(p.masters[m - 1]) + LayoutsBefore(p, m - 1)

\* zero-based position of a layout in the concatenation of the masters' lists
FlatPos(p, layout) == LayoutsBefore(p, layout.id[1]) + layout.id[2] - 1

LayoutCount(p) == LayoutsBefore(p, Len(p.masters) + 1)

\* C2: with no index given, a name that is a key of layoutAliases with a stored
\* index inside 0..count-1 resolves to the layout at that stored index, whatever
\* the layouts' names are.
C2_AliasBeforeName ==
    (/\ Called("index")
     /\ IsNone(call.some.index)
     /\ IsSome(call.some.name)
     /\ HasAliases(call.some.meta)
     /\ call.some.name.some \in DOMAIN call.some.meta.some.custom_config.some.layout_aliases
     /\ call.some.meta.some.custom_config.some.layout_aliases[call.some.name.some]
            \in 0..(LayoutCount(prs) - 1))
    => /\ ret.some.ok
       /\ ret.some.value \in LayoutObjects(prs)
       /\ FlatPos(prs, ret.some.value)
            = call.some.meta.some.custom_config.some.layout_aliases[call.some.name.some]

\* C2 witness: the alias "a" points at position 1 while the layout at position 0
\* is named exactly "a"; the layout at position 1 is returned.
C2_Witness ==
    /\ Called("index")
    /\ IsNone(call.some.index)
    /\ call.some.name = Some(<<"a">>)
    /\ HasAliases(call.some.meta)
    /\ <<"a">> \in DOMAIN call.some.meta.some.custom_config.some.layout_aliases
    /\ call.some.meta.some.custom_config.some.layout_aliases[<<"a">>] = 1
    /\ \E x \in LayoutObjects(prs) : FlatPos(prs, x) = 0 /\ x.name = <<"a">>
    /\ ret.some.ok
    /\ FlatPos(prs, ret.some.value) = 1

\* C3: with an explicit index, resolution returns the layout at that flattened
\* position when 0 <= index < count and raises the out-of-range error otherwise.
C3_IndexRangeChecked ==
    (Called("index") /\ IsSome(call.some.index))
    => LET i == call.some.index.some
       IN  IF 0 <= i /\ i < LayoutCount(prs)
           THEN /\ ret.some.ok
                /\ ret.some.value \in LayoutObjects(prs)
                /\ FlatPos(prs, ret.some.value) = i
           ELSE /\ ~ret.some.ok
                /\ ret.some.exc = "ValueError"
                /\ ret.some.msg = <<"Layout index out of range", i>>

\* C3 witness: index = count on a template with two or more layouts and a name
\* that would match; the call failed.
C3_Witness ==
    /\ Called("index")
    /\ LayoutCount(prs) >= 2
    /\ call.some.index = Some(LayoutCount(prs))
    /\ call.some.name = Some(<<"a">>)
    /\ \E x \in LayoutObjects(prs) : x.name = <<"a">>
    /\ ~ret.some.ok

\* C4: analyze_template numbers the layouts 0,1,2,... over the concatenation of
\* the masters' layout lists, and the layout the generator returns for
\* layout_index i is the layout that was given index i.
C4_FlattenedIndices ==
    IsSome(meta) =>
        /\ Len(meta.some.layouts) = LayoutCount(prs)
        /\ \A i \in DOMAIN meta.some.layouts : meta.some.layouts[i].index = i - 1
        /\ \A x \in LayoutObjects(prs) :
              meta.some.layouts[FlatPos(prs, x) + 1] = _extract_layout_meta(x, FlatPos(prs, x))
        /\ (Called("index") /\ call.some.index.some \in 0..(Len(meta.some.layouts) - 1))
              => /\ ret.some.ok
                 /\ FlatPos(prs, ret.some.value) = call.some.index.some
                 /\ meta.some.layouts[call.some.index.some + 1]
                      = _extract_layout_meta(ret.some.value, call.some.index.some)

\* C4 witness: masters with layout counts [2, 3]; index 2 went to the second
\* master's first layout and layout_index 2 returns it.
C4_Witness ==
    /\ Len(prs.masters) = 2
    /\ Len(prs.masters[1]) = 2
    /\ Len(prs.masters[2]) = 3
    /\ IsSome(meta)
    /\ meta.some.layouts[3].index = 2
    /\ meta.some.layouts[3].name = prs.masters[2][1].name
    /\ Called("index")
    /\ call.some.index = Some(2)
    /\ ret.some.ok
    /\ ret.some.value.id = <<2, 1>>

NameMatchesExactly(layout, name) == layout.name = name
NameContains(layout, name) == StrIn(Lower(name), Lower(layout.name))

\* C7: by name, with no index and no alias entry for the name: the first layout
\* named exactly like the query; otherwise the first layout whose name contains
\* the query ignoring case; otherwise the not-found error.
C7_NameResolution ==
    (/\ Called("index")
     /\ IsNone(call.some.index)
     /\ IsSome(call.some.name)
     /\ ~(/\ HasAliases(call.some.meta)
          /\ call.some.name.some
               \in DOMAIN call.some.meta.some.custom_config.some.layout_aliases))
    => LET name == call.some.name.some
           all == LayoutObjects(prs)
       IN  IF \E x \in all : NameMatchesExactly(x, name)
           THEN /\ ret.some.ok
                /\ ret.some.value \in all
                /\ NameMatchesExactly(ret.some.value, name)
                /\ \A x \in all : NameMatchesExactly(x, name)
                      => FlatPos(prs, ret.some.value) <= FlatPos(prs, x)
           ELSE IF \E x \in all : NameContains(x, name)
           THEN /\ ret.some.ok
                /\ ret.some.value \in all
                /\ NameContains(ret.some.value, name)
                /\ \A x \in all : NameContains(x, name)
                      => FlatPos(prs, ret.some.value) <= FlatPos(prs, x)
           ELSE /\ ~ret.some.ok
                /\ ret.some.exc = "ValueError"
                /\ ret.some.msg = <<"Layout not found: ", name>>

\* C7 witness: the query "a" names the second layout exactly while the first
\* layout "Ab" contains it; the second layout is returned.
C7_Witness ==
    /\ Called("index")
    /\ IsNone(call.some.index)
    /\ call.some.name = Some(<<"a">>)
    /\ call.some.meta = None
    /\ \E x \in LayoutObjects(prs) : FlatPos(prs, x) = 0 /\ x.name = <<"A","b">>
    /\ ret.some.ok
    /\ ret.some.value.name = <<"a">>
    /\ FlatPos(prs, ret.some.value) = 1

\* C7 also: a name nothing matches fails and returns no default layout
C7_WitnessNotFound ==
    /\ Called("index")
    /\ IsNone(call.some.index)
    /\ call.some.name = Some(<<"x">>)
    /\ LayoutCount(prs) >= 1
    /\ ~ret.some.ok

----------------------------------------------------------------------------
(* Properties of slide assembly *)

\* the text of every run of a paragraph, in order
RunTexts(paragraph) == [r \in DOMAIN paragraph.runs |-> paragraph.runs[r].text]

\* C6: the entries of a slide's content map are processed one after the other
\* in input order.  An entry whose key resolves to nothing appends exactly the
\* warning "Placeholder not found: <key>", leaves the slide as it is, and the
\* next entry (or the rest of the slide) is processed as usual.  An entry whose
\* key resolves to a text-capable placeholder and whose placement completes
\* adds no warning; a string or a list of strings is then the text of that
\* placeholder.
C6_ContentEntries ==
    [][InsertContent =>
        LET definition == slides[k]
            entry == definition.contents[e]
            found == _resolve_placeholder(CurrentSlide, entry.key)
            last == e = Len(definition.contents)
            continues == /\ pc' = IF last THEN StageFrom(definition, "shapes") ELSE "contents"
                         /\ e' = IF last THEN 1 ELSE e + 1
                         /\ k' = k
                         /\ result' = result
        IN  /\ (found.ok /\ IsNone(found.value)) =>
                 /\ warnings' = Append(warnings, <<"Placeholder not found: ", entry.key>>)
                 /\ prs' = prs
                 /\ continues
            /\ (found.ok /\ IsSome(found.value) /\ pc' # "failed"
                  /\ CurrentSlide.placeholders[found.value.some].has_text_frame) =>
                 LET after == prs'.slides[Len(prs.slides)].placeholders[found.value.some].text_frame
                 IN  /\ warnings' = warnings
                     /\ continues
                     /\ entry.content.kind = "str" =>
                          /\ Len(after) = 1
                          /\ RunTexts(after[1]) = <<entry.content.text>>
                     /\ (entry.content.kind = "list" /\ entry.content.items # <<>>) =>
                          /\ Len(after) = Len(entry.content.items)
                          /\ \A i \in DOMAIN after :
                                RunTexts(after[i]) = <<entry.content.items[i]>>
    ]_vars

\* a generation that lost the entry "idx:5" to a warning, placed the entry
\* after it on the body placeholder and was saved
C6_Witness ==
    /\ pc = "done"
    /\ result = Some(Ok([path |-> "out.pptx",
                         warnings |-> << <<"Placeholder not found: ", IdxKey(5)>> >>]))
    /\ IsSome(output)
    /\ Len(output.some) = 1
    /\ RunTexts(output.some[1].placeholders[2].text_frame[1]) = <<"A">>

\* the scenario of the default template: "idx:0" given a string and "idx:1" a
\* list, saved without a warning
C6_WitnessNoWarning ==
    /\ pc = "done"
    /\ result = Some(Ok([path |-> "out.pptx", warnings |-> <<>>]))
    /\ Len(output.some) = 1
    /\ RunTexts(output.some[1].placeholders[1].text_frame[1]) = <<"Hello">>
    /\ Len(output.some[1].placeholders[2].text_frame) = 2
    /\ RunTexts(output.some[1].placeholders[2].text_frame[2]) = <<"B">>

\* the layout of the slide definition add_slide is about to handle
LayoutOfCurrent ==
    _find_layout_by_name_or_index(prs, slides[k].layout_name, slides[k].layout_index, meta)

\* C8: when the layout of the k-th slide definition cannot be resolved the
\* request ends with that error: nothing is added to the document, nothing is
\* saved, no (path, warnings) result is returned, and nothing happens after it.
C8_LayoutFailureAborts ==
    [][/\ (pc = "add_slide" /\ ~LayoutOfCurrent.ok) =>
            /\ pc' = "failed"
            /\ result' = Some(Raise(LayoutOfCurrent.exc, LayoutOfCurrent.msg))
            /\ output' = None
            /\ prs' = prs
            /\ k' = k
       /\ pc = "failed" =>
            /\ pc' = "failed"
            /\ UNCHANGED <<prs, k, e, result, output, warnings>>
    ]_vars

\* the second slide definition failed on its layout after the first slide had
\* been assembled
C8_Witness ==
    /\ pc = "failed"
    /\ k = 2
    /\ Len(prs.slides) = 1
    /\ ~LayoutOfCurrent.ok
    /\ result = Some(Raise(LayoutOfCurrent.exc, LayoutOfCurrent.msg))
    /\ output = None

\* C9: a slide of the AI output that gives both layoutName and layoutIndex = i
\* gets the layout at flattened position i whatever the name, for every i including 0;
\* the request fails on that slide's layout only when i is out of range.
C9_IndexDecides ==
    (IsSome(call) /\ call.some.op = "generate_from_ai_json" /\ k >= 1) =>
        LET slides_data == call.some.slides
            all_layouts == _get_all_layouts(prs)
            Given(j) == {"layoutName", "layoutIndex"} \subseteq DOMAIN slides_data[j]
            InRange(j) == slides_data[j].layoutIndex \in 0..(Len(all_layouts) - 1)
        IN  /\ \A j \in DOMAIN prs.slides :
                 Given(j) =>
                    /\ InRange(j)
                    /\ prs.slides[j].layout = all_layouts[slides_data[j].layoutIndex + 1].id
            /\ (pc = "failed" /\ Len(prs.slides) = k - 1 /\ Given(k)) => ~InRange(k)

\* a map that names one of the five content types and cannot be built as it
FailsAsVariant(value) ==
    /\ value.kind = "dict"
    /\ "type" \in DOMAIN value.d
    /\ value.d.type \in ContentTypeValues
    /\ ~NormalizeValue(value).ok

\* C10: when the only values of a content map that cannot be converted are
\* maps naming a content type they cannot be built as, _normalize_contents does
\* not raise: it returns, in input order, every other entry it would store.
C10_FailuresIsolated ==
    Called("contents") =>
        LET contents == call.some.contents
            Kept(i) == NormalizeValue(contents[i].content).ok
                         /\ IsSome(NormalizeValue(contents[i].content).value)
            kept == SelectSeq([i \in DOMAIN contents |-> i], Kept)
        IN  (\A i \in DOMAIN contents :
                ~NormalizeValue(contents[i].content).ok => FailsAsVariant(contents[i].content))
            => /\ ret.some.ok
               /\ ret.some.value =
                    [n \in DOMAIN kept |->
                       Entry(contents[kept[n]].key,
                             NormalizeValue(contents[kept[n]].content).value.some)]

----------------------------------------------------------------------------
(* Properties of shape-list normalisation and of failures in add_slide *)

RECURSIVE FailedShapeItems(_, _)
\* number of items of slides j.. of the AI output whose type is one of the
\* three shape types and that cannot be constructed
FailedShapeItems(slides_data, j) ==
    IF j > Len(slides_data) THEN 0
    ELSE LET shapes_data == Get(slides_data[j], "shapes", <<>>)
             Fails(i) == LET shape_type == Get(shapes_data[i], "type", "shape")
                         IN  /\ shape_type \in {"shape", "textbox", "connector"}
                             /\ ~ConstructShapeItem(shape_type, shapes_data[i]).ok
         IN  Cardinality({ i \in DOMAIN shapes_data : Fails(i) })
               + FailedShapeItems(slides_data, j + 1)

\* C11: when generate_from_ai_json has returned, every slide of the AI output
\* has been added although shape items failed to construct, and the returned
\* warning list holds at least one warning for each shape item that failed to
\* construct
C11_DroppedShapeWarned ==
    (/\ IsSome(call) /\ "op" \in DOMAIN call.some
     /\ call.some.op = "generate_from_ai_json"
     /\ pc = "done")
    => /\ Len(output.some) = Len(call.some.slides)
       /\ Len(result.some.value.warnings) >= FailedShapeItems(call.some.slides, 1)

\* the placement of the shape entry add_slide is about to handle
ShapePlacement == AddShapeByKind(CurrentSlide, slides[k].shapes[e])

\* the content entry add_slide is about to handle has a placeholder with a
\* text frame, and placing the content on it raises
ContentPlacementRaises ==
    LET found == _resolve_placeholder(CurrentSlide, slides[k].contents[e].key)
    IN  /\ found.ok /\ IsSome(found.value)
        /\ CurrentSlide.placeholders[found.value.some].has_text_frame
        /\ ~InsertByKind(CurrentSlide, found.value.some, warnings,
                         slides[k].contents[e].content).ok

\* C12: a shape entry whose placement raises adds exactly one warning
\* ("Failed to add shape: ...") and add_slide goes on with the next shape entry
\* (or the notes); a content entry whose placement on its resolved placeholder
\* raises adds no warning, and the request ends with that exception: nothing is
\* saved and nothing is returned.
C12_FailureAsymmetry ==
    [][/\ (pc = "shapes" /\ ~ShapePlacement.ok) =>
            /\ warnings' = Append(warnings, <<"Failed to add shape: ", ShapePlacement.msg>>)
            /\ pc' = IF e < Len(slides[k].shapes) THEN "shapes" ELSE "notes"
            /\ e' = IF e < Len(slides[k].shapes) THEN e + 1 ELSE 1
            /\ UNCHANGED <<k, result, output>>
       /\ (pc = "contents" /\ ContentPlacementRaises) =>
            /\ warnings' = warnings
            /\ pc' = "failed"
            /\ IsSome(result') /\ ~result'.some.ok
            /\ output' = None
       /\ pc = "failed" => UNCHANGED <<pc, warnings, result, output>>
    ]_vars

\* the first slide got a warning for a shape with a malformed colour and its
\* next shape; the request then ended on the second slide, whose text content
\* has the same malformed colour
C12_Witness ==
    /\ pc = "failed"
    /\ k = 2
    /\ warnings = <<<<"Failed to add shape: ", _parse_rgb_color(BadColor).msg>>>>
    /\ Len(prs.slides[1].shapes) = 2
    /\ prs.slides[1].shapes[2].text = Some("box")
    /\ result = Some(Raise("ValueError", _parse_rgb_color(BadColor).msg))
    /\ output = None

----------------------------------------------------------------------------
(* Properties of content keys *)

\* C13: resolving a content key on a slide never raises, whatever follows the
\* "idx:" or "type:" prefix: the result is a placeholder or not-found.
C13_ResolveNeverRaises ==
    Called("placeholder_key") => ret.some.ok

\* the first position of the collection that satisfies P, None when none does
FirstPlaceholder(phs, P(_)) ==
    IF \E i \in DOMAIN phs : P(i)
    THEN Some(CHOOSE i \in DOMAIN phs : P(i) /\ \A j \in 1..(i - 1) : ~P(j))
    ELSE None

\* C14: a key "idx:<int>" is resolved to the first placeholder with that
\* index and to not-found when there is none, whatever the names and types; a
\* key "type:<ENUM>" with a member of PlaceholderType is resolved to the first
\* placeholder of that type among the types _find_placeholder can match and to
\* not-found when there is none, whatever the names; every other key, a
\* "type:" key without a member included, is resolved to the first
\* placeholder whose name contains the whole key or is contained in it,
\* letter case ignored.
C14_KeyParsing ==
    (Called("placeholder_key") /\ ret.some.ok) =>
        LET key == call.some.placeholder_key
            phs == call.some.slide.placeholders
            isIdx == StartsWith(key, IdxPrefix)
            isType == /\ ~isIdx /\ StartsWith(key, TypePrefix)
                      /\ \E t \in DOMAIN PlaceholderTypeValues :
                            key = TypePrefix \o PlaceholderTypeValues[t]
            HasIdx(i) == phs[i].idx = ParseInt(Drop(key, 4)).value
            HasType(i) == /\ key = TypePrefix \o PlaceholderTypeValues[phs[i].type]
                          /\ phs[i].type \in {"TITLE", "CENTER_TITLE", "SUBTITLE", "BODY"}
            HasName(i) == \/ StrIn(Lower(key), Lower(phs[i].name))
                          \/ StrIn(Lower(phs[i].name), Lower(key))
        IN  ret.some.value = IF isIdx THEN FirstPlaceholder(phs, HasIdx)
                             ELSE IF isType THEN FirstPlaceholder(phs, HasType)
                             ELSE FirstPlaceholder(phs, HasName)

\* a type key found nothing on a slide whose only placeholder has no name, so
\* that a search by name would have returned it
C14_Witness ==
    /\ Called("placeholder_key")
    /\ call.some.placeholder_key = TypePrefix \o PlaceholderTypeValues["BODY"]
    /\ Len(call.some.slide.placeholders) = 1
    /\ call.some.slide.placeholders[1].name = <<>>
    /\ ret.some = Ok(None)

----------------------------------------------------------------------------
(* Properties of alias tables with a stored index out of range *)

\* C15: with no index given, a name that is a key of layoutAliases whose stored
\* index is outside 0..count-1 makes the resolution fail, whatever the
\* layouts' names are.
C15_InvalidAliasFails ==
    (/\ Called("index")
     /\ IsNone(call.some.index)
     /\ IsSome(call.some.name)
     /\ HasAliases(call.some.meta)
     /\ call.some.name.some \in DOMAIN call.some.meta.some.custom_config.some.layout_aliases
     /\ call.some.meta.some.custom_config.some.layout_aliases[call.some.name.some]
            \notin 0..(LayoutCount(prs) - 1))
    => ~ret.some.ok

----------------------------------------------------------------------------
(* Properties of chart maps in the AI output *)

\* C16: an AI output of one slide whose content map has one entry, a map with
\* type "chart", a chartType among the chart kinds, categories and series,
\* does not make generate_from_ai_json fail, and when the call has returned
\* and the key resolves to a placeholder the slide holds a chart of the kind
\* CHART_TYPE_MAP gives for chartType, with those categories and series and
\* with its legend shown unless showLegend says otherwise.
C16_ChartPlaced ==
    (/\ IsSome(call) /\ "op" \in DOMAIN call.some
     /\ call.some.op = "generate_from_ai_json"
     /\ Len(call.some.slides) = 1
     /\ "content" \in DOMAIN call.some.slides[1]
     /\ Len(call.some.slides[1].content) = 1
     /\ call.some.slides[1].content[1].content.kind = "dict"
     /\ LET d == call.some.slides[1].content[1].content.d
        IN  /\ {"type", "chartType", "categories", "series"} \subseteq DOMAIN d
            /\ d.type = "chart"
            /\ d.chartType \in DOMAIN CHART_TYPE_MAP)
    => LET d == call.some.slides[1].content[1].content.d
           key == call.some.slides[1].content[1].key
       IN  /\ pc # "failed"
           /\ (/\ pc = "done"
               /\ _resolve_placeholder(output.some[1], key).ok
               /\ IsSome(_resolve_placeholder(output.some[1], key).value))
              => \E i \in DOMAIN output.some[1].shapes :
                    /\ output.some[1].shapes[i].kind = "chart"
                    /\ output.some[1].shapes[i].chart_type = CHART_TYPE_MAP[d.chartType]
                    /\ output.some[1].shapes[i].categories = d.categories
                    /\ output.some[1].shapes[i].series = d.series
                    /\ output.some[1].shapes[i].has_legend = Get(d, "showLegend", TRUE)

----------------------------------------------------------------------------
(* Properties of the normaliser's dispatch *)

\* what C17 says is stored for a string or a list
StoredAsClaimed(value, content) ==
    CASE value.kind = "str" -> content = StrContent(value.text)
      [] value.kind = "list" /\ \A j \in DOMAIN value.items : value.items[j].kind = "str" ->
           content = ListContent([j \in DOMAIN value.items |-> value.items[j].text])
      [] OTHER ->
           /\ content.kind = "text"
           /\ Len(content.paragraphs) = Len(value.items)
           /\ \A j \in DOMAIN value.items :
                 /\ value.items[j].kind = "str" =>
                       content.paragraphs[j] =
                         ParagraphContent(value.items[j].text, None, FALSE, 0, None)
                 /\ value.items[j].kind = "dict" =>
                       \A f \in DOMAIN value.items[j].d \cap {"text", "bullet", "level"} :
                          content.paragraphs[j][f] = value.items[j].d[f]

\* C17: a content map whose values are strings and lists is normalised without
\* an exception to a map with the same keys in the same order, in which a
\* string and a list of strings (the empty list included) are unchanged and
\* any other list is a TextContent with one paragraph per element of the
\* list, in order: default style for a string element, the fields by key for a
\* map element.
C17_ListDispatch ==
    (/\ Called("contents")
     /\ \A i \in DOMAIN call.some.contents :
           call.some.contents[i].content.kind \in {"str", "list"})
    => /\ ret.some.ok
       /\ Len(ret.some.value) = Len(call.some.contents)
       /\ \A i \in DOMAIN call.some.contents :
             /\ ret.some.value[i].key = call.some.contents[i].key
             /\ StoredAsClaimed(call.some.contents[i].content, ret.some.value[i].content)

\* what is stored for a map without a type field
StoredForMap(d, content) ==
    IF "paragraphs" \in DOMAIN d
    THEN /\ content.kind = "text"
         /\ Len(content.paragraphs) = Len(d.paragraphs)
         /\ \A j \in DOMAIN d.paragraphs :
               /\ content.paragraphs[j].text = d.paragraphs[j].d.text
               /\ content.paragraphs[j].bullet = Get(d.paragraphs[j].d, "bullet", FALSE)
    ELSE content = [kind |-> "str", text |-> [repr |-> d]]

\* C18: when _normalize_contents returns, every map without a type field has
\* its entry under its key: a TextContent with the map's paragraphs when the
\* map has a paragraphs field, the string form of the map otherwise; and a
\* content map made only of strings and of maps with neither field is
\* normalised without an exception.
C18_MapDispatch ==
    Called("contents") =>
        LET contents == call.some.contents
            Untyped(i) == contents[i].content.kind = "dict"
                            /\ "type" \notin DOMAIN contents[i].content.d
            Fallback(i) == Untyped(i) /\ "paragraphs" \notin DOMAIN contents[i].content.d
        IN  /\ ret.some.ok =>
                 \A i \in DOMAIN contents : Untyped(i) =>
                    \E n \in DOMAIN ret.some.value :
                       /\ ret.some.value[n].key = contents[i].key
                       /\ StoredForMap(contents[i].content.d, ret.some.value[n].content)
            /\ (\A i \in DOMAIN contents : Fallback(i) \/ contents[i].content.kind = "str")
                  => ret.some.ok

\* a map with paragraphs and a map with neither field were normalised together
C18_Witness ==
    /\ Called("contents")
    /\ Len(call.some.contents) = 2
    /\ call.some.contents[1].content.kind = "dict"
    /\ DOMAIN call.some.contents[1].content.d = {"paragraphs"}
    /\ call.some.contents[2].content.kind = "dict"
    /\ DOMAIN call.some.contents[2].content.d = {"title"}
    /\ ret.some.ok
    /\ ret.some.value[1].content.kind = "text"
    /\ Len(ret.some.value[1].content.paragraphs) = 2
    /\ ret.some.value[2].content = [kind |-> "str", text |-> [repr |-> call.some.contents[2].content.d]]

----------------------------------------------------------------------------
(* Properties of the search by type *)

\* C19: a request by type alone returns the first placeholder of that native
\* type when the type is TITLE, CENTER_TITLE, SUBTITLE or BODY, and not-found
\* for every other member of PlaceholderType, also on a slide that has a
\* placeholder of that native type.
C19_TypeOnlyFour ==
    (/\ Called("ph_type")
     /\ IsNone(call.some.name) /\ IsNone(call.some.idx) /\ IsSome(call.some.ph_type))
    => LET phs == call.some.slide.placeholders
           OfType(i) == phs[i].type = call.some.ph_type.some
       IN  IF call.some.ph_type.some \in {"TITLE", "CENTER_TITLE", "SUBTITLE", "BODY"}
           THEN ret.some = FirstPlaceholder(phs, OfType)
           ELSE ret.some = None

\* a picture placeholder was asked for by type on a slide that has one
C19_Witness ==
    /\ Called("ph_type")
    /\ IsNone(call.some.name) /\ IsNone(call.some.idx)
    /\ call.some.ph_type = Some("PICTURE")
    /\ \E i \in DOMAIN call.some.slide.placeholders :
          call.some.slide.placeholders[i].type = "PICTURE"
    /\ ret.some = None

----------------------------------------------------------------------------
(* Properties of the placeholders analyze_template reports *)

\* C20: in the metadata of every layout no placeholder has type FOOTER, DATE
\* or SLIDE_NUMBER; a native placeholder with one of those type tags has no
\* entry, and every other native placeholder has exactly one entry, with the
\* PlaceholderType of its tag, or no type when the tag is not mapped.
C20_FooterDateNumberDropped ==
    IsSome(meta) =>
        \A x \in LayoutObjects(prs) :
           LET reported == meta.some.layouts[FlatPos(prs, x) + 1].placeholders
               native == x.placeholders
               Dropped(i) == native[i].type \in {"FOOTER", "DATE", "SLIDE_NUMBER"}
               EntriesOf(i) == { j \in DOMAIN reported : reported[j].idx = native[i].idx }
           IN  /\ \A j \in DOMAIN reported :
                     reported[j].type \notin {Some("FOOTER"), Some("DATE"), Some("SLIDE_NUMBER")}
               /\ Len(reported) = Cardinality({ i \in DOMAIN native : ~Dropped(i) })
               /\ \A i \in DOMAIN native :
                     IF Dropped(i) THEN EntriesOf(i) = {}
                     ELSE /\ Cardinality(EntriesOf(i)) = 1
                          /\ \A j \in EntriesOf(i) :
                                reported[j].type =
                                  IF native[i].type \in
                                       {"TITLE", "CENTER_TITLE", "SUBTITLE", "BODY", "OBJECT",
                                        "CHART", "TABLE", "PICTURE"}
                                  THEN Some(native[i].type) ELSE None

\* a layout with footer, date and slide-number placeholders and one with an
\* unmapped tag was analysed: three of its six placeholders are reported, one
\* of them without a type
C20_Witness ==
    /\ IsSome(meta)
    /\ \E x \in LayoutObjects(prs) :
          /\ { x.placeholders[i].type : i \in DOMAIN x.placeholders }
                = {"BODY", "DATE", "FOOTER", "SLIDE_NUMBER", "MEDIA_CLIP", "TITLE"}
          /\ Len(meta.some.layouts[FlatPos(prs, x) + 1].placeholders) = 3
          /\ \E j \in 1..3 : meta.some.layouts[FlatPos(prs, x) + 1].placeholders[j].type = None

\* C21: in the metadata of every layout the placeholders are in ascending
\* order of (top, left), whatever the native declaration order is, and two
\* placeholders with the same (top, left) are in their native declaration
\* order.
C21_SortedByTopLeft ==
    IsSome(meta) =>
        \A x \in LayoutObjects(prs) :
           LET reported == meta.some.layouts[FlatPos(prs, x) + 1].placeholders
               native == x.placeholders
               NativePos(j) == CHOOSE i \in DOMAIN native : native[i].idx = reported[j].idx
           IN  \A j1, j2 \in DOMAIN reported : j1 < j2 =>
                  \/ reported[j1].top < reported[j2].top
                  \/ /\ reported[j1].top = reported[j2].top
                     /\ reported[j1].left < reported[j2].left
                  \/ /\ reported[j1].top = reported[j2].top
                     /\ reported[j1].left = reported[j2].left
                     /\ NativePos(j1) < NativePos(j2)

\* a layout declared its title after placeholders that lie below it, and two
\* of its placeholders have the same (top, left): the title is reported first
\* and the two follow in their native order
C21_Witness ==
    /\ IsSome(meta)
    /\ \E x \in LayoutObjects(prs) :
          LET reported == meta.some.layouts[FlatPos(prs, x) + 1].placeholders
          IN  /\ x.placeholders[1] = PhBody
              /\ x.placeholders[Len(x.placeholders)] = PhTitle
              /\ Len(reported) = 3
              /\ reported[1].idx = PhTitle.idx
              /\ reported[2].idx = PhBody.idx
              /\ reported[3].idx = PhMedia.idx
              /\ reported[2].top = reported[3].top
              /\ reported[2].left = reported[3].left

----------------------------------------------------------------------------
(* Properties of the order of assembly *)

\* C22: the slide definitions are handled in input order, one at a time; for
\* definition k the layout is resolved and the slide added first, then the
\* content entries 1, 2, ... in order, then the shape entries 1, 2, ... in
\* order, then the speaker notes, which replace the notes of the slide when
\* given; only the notes step moves on to definition k + 1, and the document
\* is saved only after the notes step of the last definition.
C22_AssemblyOrder ==
    [][LET definition == slides[k]
           AfterContents == IF definition.shapes # <<>> THEN "shapes" ELSE "notes"
       IN  /\ pc = "add_slide" =>
                /\ k' = k /\ k \in DOMAIN slides
                /\ Len(prs.slides) = k - 1
                /\ \/ pc' = "failed"
                   \/ /\ Len(prs'.slides) = k /\ e' = 1
                      /\ pc' = IF definition.contents # <<>> THEN "contents" ELSE AfterContents
           /\ pc = "contents" =>
                /\ k' = k /\ Len(prs'.slides) = k
                /\ e \in DOMAIN definition.contents
                /\ \/ pc' = "failed"
                   \/ e < Len(definition.contents) /\ pc' = "contents" /\ e' = e + 1
                   \/ e = Len(definition.contents) /\ pc' = AfterContents /\ e' = 1
           /\ pc = "shapes" =>
                /\ k' = k /\ Len(prs'.slides) = k
                /\ e \in DOMAIN definition.shapes
                /\ prs'.slides[k].placeholders = prs.slides[k].placeholders
                /\ \/ e < Len(definition.shapes) /\ pc' = "shapes" /\ e' = e + 1
                   \/ e = Len(definition.shapes) /\ pc' = "notes"
           /\ pc = "notes" =>
                /\ k' = k + 1
                /\ pc' = IF k < Len(slides) THEN "add_slide" ELSE "save"
                /\ prs'.slides[k].placeholders = prs.slides[k].placeholders
                /\ prs'.slides[k].shapes = prs.slides[k].shapes
                /\ (IsSome(definition.speaker_notes) /\ definition.speaker_notes.some # "")
                      => prs'.slides[k].notes = definition.speaker_notes
           /\ pc = "save" =>
                /\ k = Len(slides) + 1
                /\ pc' = "done"
                /\ output' = Some(prs.slides)
           /\ pc \in {"done", "failed"} => UNCHANGED <<prs, k, e, warnings, output>>
    ]_vars

\* two definitions were assembled: the first got its content, then its two
\* shapes; the second got its content and then its notes; the document is
\* about to be saved
C22_Witness ==
    /\ pc = "save"
    /\ k = 3
    /\ slides[1].contents # <<>> /\ Len(slides[1].shapes) = 2
    /\ Len(prs.slides[1].shapes) = 2
    /\ RunTexts(prs.slides[1].placeholders[2].text_frame[1]) = <<"body">>
    /\ Len(slides[2].contents) = 2
    /\ slides[2].speaker_notes = Some("note")
    /\ prs.slides[2].notes = Some("note")
    /\ output = None

----------------------------------------------------------------------------
(* Properties of images whose file is missing *)

\* the content entry add_slide is about to handle is an image whose source
\* does not exist, and its key resolves to a placeholder that passes the
\* text-frame check, so that the placement of the image is reached
MissingImageReached ==
    LET entry == slides[k].contents[e]
        found == _resolve_placeholder(CurrentSlide, entry.key)
    IN  /\ pc = "contents"
        /\ entry.content.kind = "image"
        /\ entry.content.source \notin ExistingFiles
        /\ found.ok /\ IsSome(found.value)
        /\ CurrentSlide.placeholders[found.value.some].has_text_frame

\* C23: placing an image whose source does not exist changes nothing in the
\* document (no picture, the shapes and placeholders of the slide as before),
\* appends no warning and raises nothing; add_slide goes on with the next
\* content entry, or with what follows the content entries.
C23_MissingImageSkipped ==
    [][MissingImageReached =>
         /\ prs' = prs
         /\ warnings' = warnings
         /\ pc' # "failed" /\ result' = result
         /\ IF e < Len(slides[k].contents)
            THEN pc' = "contents" /\ e' = e + 1
            ELSE pc' \in {"shapes", "notes"}
    ]_vars

\* a slide whose first content entry was an image with a missing source has
\* been saved: no shape, no warning, and the entry after the image was placed
C23_Witness ==
    /\ pc = "done"
    /\ Len(slides) = 1
    /\ Len(slides[1].contents) = 2
    /\ slides[1].contents[1].content.kind = "image"
    /\ slides[1].contents[1].content.source \notin ExistingFiles
    /\ output.some[1].shapes = <<>>
    /\ RunTexts(output.some[1].placeholders[1].text_frame[1]) = <<"T">>
    /\ result = Some(Ok([path |-> "out.pptx", warnings |-> <<>>]))


----------------------------------------------------------------------------
(* template_analyzer.py enrich_template_meta and template_manager.py:      *)
(* the template registry.  templates_dir maps a file name to the content   *)
(* of the file, meta_dir maps a template id to the stored TemplateMeta.    *)
(* The standard layout name "Blank" stands for the key of the default      *)
(* tables that is written in Japanese in the source.                       *)

Blank == <<"B","l","a","n","k">>

FileA == <<"a",".","p","p","t","x">>
FileB == <<"b",".","p","p","t","x">>
FileMissing == <<"m",".","p","p","t","x">>

\* contents a template file can have: two presentations and a file that
\* python-pptx cannot open
TplOne == [masters |-> WithIds(<< << [name |-> Blank, placeholders |-> <<>>],
                                     [name |-> <<"A","b">>, placeholders |-> <<PhTitle, PhBody>>] >> >>),
           slides |-> <<>>]
TplTwo == [masters |-> WithIds(<< << [name |-> <<"a">>, placeholders |-> <<PhBody, PhTitle>>] >>,
                                  << [name |-> <<"A","b">>, placeholders |-> <<PhTitle>>] >> >>),
           slides |-> <<>>]
Corrupt == [corrupt |-> TRUE]

\* files outside the registry that register_template can be pointed at
ExternalFiles == [n \in {FileA} |-> TplOne]

TemplateIds == { <<"t","1">>, <<"t","2">> }

EmptyDict == [n \in {} |-> 0]

Put(d, key, v) == [n \in DOMAIN d \cup {key} |-> IF n = key THEN v ELSE d[n]]
Remove(d, key) == [n \in DOMAIN d \ {key} |-> d[n]]
\* dict.update
DictUpdate(d, other) ==
    [n \in DOMAIN d \cup DOMAIN other |-> IF n \in DOMAIN other THEN other[n] ELSE d[n]]

\* truth value of an optional str or dict argument
Truthy(o) == IsSome(o) /\ DOMAIN o.some # {}

DEFAULT_LAYOUT_DESCRIPTIONS == [n \in {Blank} |-> "default description"]
DEFAULT_LAYOUT_HINTS == [n \in {Blank} |-> "default hint"]

RECURSIVE LastDot(_, _)
LastDot(name, i) ==
    IF i = 0 THEN 0 ELSE IF name[i] = "." THEN i ELSE LastDot(name, i - 1)

\* Path.stem: the name without its last suffix
Stem(name) ==
    LET d == LastDot(name, Len(name))
    IN IF d <= 1 THEN name ELSE SubSeq(name, 1, d - 1)

\* hexdigest()[:8]: different contents of the pool have different digests
Md5(content) ==
    IF content = TplOne THEN <<"1">> ELSE IF content = TplTwo THEN <<"2">> ELSE <<"0">>

\* analyze_template on a path: file is the content at the path, None when
\* nothing is there
AnalyzePath(file, file_name, template_id) ==
    IF file = None THEN Raise("FileNotFoundError", "Template file not found")
    ELSE IF "corrupt" \in DOMAIN file.some THEN Raise("PackageNotFoundError", "Package not found")
    ELSE LET tid == IF template_id = None
                    THEN Stem(file_name) \o <<"_">> \o Md5(file.some)
                    ELSE template_id.some
         IN Ok(analyze_template(file.some, tid, None)
               @@ [name |-> Stem(file_name), file_name |-> file_name, description |-> None])

\* a plausible slip: the layouts are numbered again from one
EnrichRenumbering(m, layout_descriptions, layout_hints, layout_aliases) ==
    [m EXCEPT !.layouts = [i \in DOMAIN m.layouts |-> [m.layouts[i] EXCEPT !.index = i]]]

enrich_template_meta(m, layout_descriptions, layout_hints, layout_aliases) ==
    LET descs == IF Truthy(layout_descriptions) THEN layout_descriptions.some ELSE EmptyDict
        hints == IF Truthy(layout_hints) THEN layout_hints.some ELSE EmptyDict
        enriched_layouts ==
            [i \in DOMAIN m.layouts |->
                LET layout == m.layouts[i]
                IN [layout EXCEPT
                      !.description = IF layout.name \in DOMAIN descs
                                      THEN Some(descs[layout.name]) ELSE @,
                      !.usage_hint = IF layout.name \in DOMAIN hints
                                     THEN Some(hints[layout.name]) ELSE @]]
        config == IF IsSome(m.custom_config) THEN m.custom_config.some
                  ELSE [layout_aliases |-> EmptyDict]
        custom_config == IF Truthy(layout_aliases)
                         THEN [config EXCEPT !.layout_aliases = layout_aliases.some]
                         ELSE config
    IN [m EXCEPT !.layouts = enriched_layouts, !.custom_config = Some(custom_config)]

\* the result of a manager call: what it returns or raises, and the two
\* directories afterwards
Outcome(r, tdir, mdir) == [ret |-> r, templates_dir |-> tdir, meta_dir |-> mdir]

\* path: [in_templates_dir, name]
ReadPath(tdir, path) ==
    IF path.in_templates_dir
    THEN (IF path.name \in DOMAIN tdir THEN Some(tdir[path.name]) ELSE None)
    ELSE (IF path.name \in DOMAIN ExternalFiles THEN Some(ExternalFiles[path.name]) ELSE None)

register_template(tdir, mdir, path, template_id, name, description, layout_descriptions, layout_hints, layout_aliases) ==
    LET file == ReadPath(tdir, path)
        analysed == AnalyzePath(file, path.name, template_id)
    IN IF file = None
       THEN Outcome(Raise("FileNotFoundError", "Template file not found"), tdir, mdir)
       ELSE IF ~analysed.ok THEN Outcome(analysed, tdir, mdir)
       ELSE LET m1 == IF Truthy(name) THEN [analysed.value EXCEPT !.name = name.some]
                      ELSE analysed.value
                m2 == IF Truthy(description)
                      THEN [m1 EXCEPT !.description = description] ELSE m1
                merged_descriptions ==
                    IF Truthy(layout_descriptions)
                    THEN DictUpdate(DEFAULT_LAYOUT_DESCRIPTIONS, layout_descriptions.some)
                    ELSE DEFAULT_LAYOUT_DESCRIPTIONS
                merged_hints ==
                    IF Truthy(layout_hints)
                    THEN DictUpdate(DEFAULT_LAYOUT_HINTS, layout_hints.some)
                    ELSE DEFAULT_LAYOUT_HINTS
                m3 == enrich_template_meta(m2, Some(merged_descriptions), Some(merged_hints),
                                           layout_aliases)
                copied == IF path.in_templates_dir THEN tdir ELSE Put(tdir, path.name, file.some)
            IN Outcome(Ok(m3), copied, Put(mdir, m3.id, m3))

upload_template(tdir, mdir, filename, content, template_id, name, description) ==
    LET written == Put(tdir, filename, content)
        r == register_template(written, mdir, [in_templates_dir |-> TRUE, name |-> filename],
                               template_id,
                               IF Truthy(name) THEN name ELSE Some(Stem(filename)),
                               description, None, None, None)
    IN IF r.ret.ok THEN r
       ELSE Outcome(r.ret, Remove(r.templates_dir, filename), r.meta_dir)

update_template_meta(tdir, mdir, template_id, name, description, layout_descriptions, layout_hints, layout_aliases) ==
    IF template_id \notin DOMAIN mdir
    THEN Outcome(Raise("FileNotFoundError", "Template not found"), tdir, mdir)
    ELSE LET m0 == mdir[template_id]
             m1 == IF Truthy(name) THEN [m0 EXCEPT !.name = name.some] ELSE m0
             m2 == IF Truthy(description) THEN [m1 EXCEPT !.description = description] ELSE m1
             m3 == IF Truthy(layout_descriptions) \/ Truthy(layout_hints)
                      \/ Truthy(layout_aliases)
                   THEN enrich_template_meta(m2, layout_descriptions, layout_hints,
                                             layout_aliases)
                   ELSE m2
         IN Outcome(Ok(m3), tdir, Put(mdir, template_id, m3))

delete_template(tdir, mdir, template_id) ==
    IF template_id \notin DOMAIN mdir THEN Outcome(Ok(FALSE), tdir, mdir)
    ELSE Outcome(Ok(TRUE), Remove(tdir, mdir[template_id].file_name), Remove(mdir, template_id))

\* the arguments a caller of update_template_meta gives
NewName == <<"N">>
UpdateArgs ==
    { [name |-> Some(NewName), description |-> Some(<<"D">>), layout_descriptions |-> None,
       layout_hints |-> None, layout_aliases |-> Some([n \in {<<"x">>} |-> 0])],
      [name |-> None, description |-> None,
       layout_descriptions |-> Some([n \in {<<"A","b">>, <<"z">>} |-> "described"]),
       layout_hints |-> Some([n \in {Blank} |-> "hinted"]), layout_aliases |-> None],
      [name |-> None, description |-> None, layout_descriptions |-> None,
       layout_hints |-> None, layout_aliases |-> None] }

\* a manager call ends: its outcome becomes the state of the directories
Finish(op, template_id, r) ==
    /\ templates_dir' = r.templates_dir
    /\ meta_dir' = r.meta_dir
    /\ call' = Some([manager_op |-> op, template_id |-> template_id])
    /\ ret' = Some([ok |-> r.ret.ok])
    /\ UNCHANGED <<prs, meta, genVars, sessions_dir, issued>>

RegisterTemplate ==
    \E name \in {FileA, FileMissing} :
       \E r \in { register_template(templates_dir, meta_dir,
                                    [in_templates_dir |-> FALSE, name |-> name],
                                    None, None, None, None, None, None) } :
          Finish("register_template", None, r)

UploadTemplate ==
    \E filename \in {FileA, FileB}, content \in {TplOne, TplTwo, Corrupt},
       template_id \in TemplateIds :
       \E r \in { upload_template(templates_dir, meta_dir, filename, content,
                                  Some(template_id), None, None) } :
          Finish("upload_template", Some(template_id), r)

UpdateTemplateMeta ==
    \E template_id \in TemplateIds, a \in UpdateArgs :
       \E r \in { update_template_meta(templates_dir, meta_dir, template_id, a.name,
                                       a.description, a.layout_descriptions,
                                       a.layout_hints, a.layout_aliases) } :
          Finish("update_template_meta", Some(template_id), r)

DeleteTemplate ==
    \E template_id \in TemplateIds :
       \E r \in { delete_template(templates_dir, meta_dir, template_id) } :
          Finish("delete_template", Some(template_id), r)

InitRegistry ==
    /\ InitCommon
    /\ prs = TplOne

NextRegistry == RegisterTemplate \/ UploadTemplate \/ UpdateTemplateMeta \/ DeleteTemplate

SpecRegistry == InitRegistry /\ [][NextRegistry]_vars

----------------------------------------------------------------------------
(* session_manager.py: SessionManager.  sessions_dir maps a session id to   *)
(* the SessionState stored in its state.json; a session directory exists   *)
(* exactly when its state file does.  Session ids are numbered in the      *)
(* order uuid4 produced them, so an id is never produced twice.  The       *)
(* timestamps and the ids of the records are left out.                     *)

MaxSessions == 2
MaxUpdates == 2

SessionFiles == [pptx_path |-> None, preview_path |-> None, thumbnail_paths |-> <<>>]

SessionState(session_id, template_id) ==
    [session_id |-> session_id, template_id |-> template_id, current_slides |-> <<>>,
     generation_history |-> <<>>, files |-> SessionFiles]

GenerationRecord(type, user_input, slides_snapshot) ==
    [type |-> type, user_input |-> user_input, slides_snapshot |-> slides_snapshot]

SessionOutcome(r, sdir) == [ret |-> r, sessions_dir |-> sdir]

create_session(sdir, session_id, template_id) ==
    LET state == SessionState(session_id, template_id)
    IN  SessionOutcome(Ok(state), Put(sdir, session_id, state))

get_session(sdir, session_id) ==
    IF session_id \in DOMAIN sdir THEN Some(sdir[session_id]) ELSE None

\* a plausible slip: the history holds the latest record only
UpdateSessionKeepingLast(sdir, session_id, new_slides, user_input, generation_type) ==
    LET state == get_session(sdir, session_id)
    IN  IF state = None THEN SessionOutcome(Raise("ValueError", "Session not found"), sdir)
        ELSE LET updated ==
                    [state.some EXCEPT
                       !.generation_history =
                           <<GenerationRecord(generation_type, user_input, new_slides)>>,
                       !.current_slides = new_slides]
             IN  SessionOutcome(Ok(updated), Put(sdir, session_id, updated))

update_session(sdir, session_id, new_slides, user_input, generation_type) ==
    LET state == get_session(sdir, session_id)
    IN  IF state = None THEN SessionOutcome(Raise("ValueError", "Session not found"), sdir)
        ELSE LET record == GenerationRecord(generation_type, user_input, new_slides)
                 updated == [state.some EXCEPT
                               !.generation_history = Append(@, record),
                               !.current_slides = new_slides]
             IN  SessionOutcome(Ok(updated), Put(sdir, session_id, updated))

update_files(sdir, session_id, pptx_path, preview_path, thumbnail_paths) ==
    LET state == get_session(sdir, session_id)
    IN  IF state = None THEN SessionOutcome(Raise("ValueError", "Session not found"), sdir)
        ELSE LET f0 == state.some.files
                 f1 == IF IsSome(pptx_path) /\ pptx_path.some # ""
                       THEN [f0 EXCEPT !.pptx_path = pptx_path] ELSE f0
                 f2 == IF IsSome(preview_path) /\ preview_path.some # ""
                       THEN [f1 EXCEPT !.preview_path = preview_path] ELSE f1
                 f3 == IF IsSome(thumbnail_paths)
                       THEN [f2 EXCEPT !.thumbnail_paths = thumbnail_paths.some] ELSE f2
                 updated == [state.some EXCEPT !.files = f3]
             IN  SessionOutcome(Ok(updated), Put(sdir, session_id, updated))

delete_session(sdir, session_id) ==
    IF session_id \notin DOMAIN sdir THEN SessionOutcome(Ok(FALSE), sdir)
    ELSE SessionOutcome(Ok(TRUE), Remove(sdir, session_id))

\* the arguments a caller of update_session gives
SessionUpdates ==
    { [slides |-> <<"s1">>, user_input |-> "make", generation_type |-> "initial"],
      [slides |-> <<"s1", "s2">>, user_input |-> "change", generation_type |-> "modification"] }

\* ids a caller can name: those produced so far and one that never was
SessionIds == 1..(MaxSessions + 1)

FinishSession(op, args, r) ==
    /\ sessions_dir' = r.sessions_dir
    /\ call' = Some([session_op |-> op] @@ args)
    /\ ret' = Some([ok |-> r.ret.ok])
    /\ UNCHANGED <<prs, meta, genVars, templates_dir, meta_dir>>

CreateSession ==
    /\ issued < MaxSessions
    /\ issued' = issued + 1
    /\ \E r \in { create_session(sessions_dir, issued + 1, <<"t","1">>) } :
          FinishSession("create_session", [session_id |-> issued + 1], r)

UpdateSession ==
    /\ \E session_id \in SessionIds, a \in SessionUpdates :
          /\ session_id \in DOMAIN sessions_dir =>
                Len(sessions_dir[session_id].generation_history) < MaxUpdates
          /\ \E r \in { update_session(sessions_dir, session_id, a.slides, a.user_input,
                                       a.generation_type) } :
                FinishSession("update_session", [session_id |-> session_id, args |-> a], r)
    /\ UNCHANGED issued

UpdateFiles ==
    /\ \E session_id \in SessionIds, pptx_path \in {None, Some("output.pptx")} :
          \E r \in { update_files(sessions_dir, session_id, pptx_path, None, None) } :
             FinishSession("update_files", [session_id |-> session_id], r)
    /\ UNCHANGED issued

DeleteSession ==
    /\ \E session_id \in SessionIds :
          \E r \in { delete_session(sessions_dir, session_id) } :
             FinishSession("delete_session", [session_id |-> session_id], r)
    /\ UNCHANGED issued

InitSessions ==
    /\ InitCommon
    /\ prs = TplOne

NextSessions == CreateSession \/ UpdateSession \/ UpdateFiles \/ DeleteSession

SpecSessions == InitSessions /\ [][NextSessions]_vars

----------------------------------------------------------------------------
(* Properties of the template registry *)

\* what enrichment must leave alone: the id and, per layout, index, name and
\* placeholder list
Structure(m) ==
    [id |-> m.id,
     layouts |-> [i \in DOMAIN m.layouts |->
                    [index |-> m.layouts[i].index, name |-> m.layouts[i].name,
                     placeholders |-> m.layouts[i].placeholders]]]

IndicesArePositions(m) == \A i \in DOMAIN m.layouts : m.layouts[i].index = i - 1

UpdateSucceeded ==
    /\ IsSome(call') /\ "manager_op" \in DOMAIN call'.some
    /\ call'.some.manager_op = "update_template_meta"
    /\ ret' = Some([ok |-> TRUE])

\* C24: a successful update_template_meta, applied any number of times, leaves
\* the template id, the number of layouts and each layout's index, name and
\* placeholder list of every stored template as they were, and after every
\* manager call the layout indices of every stored template equal their
\* positions
C24_EnrichmentKeepsStructure ==
    [][ /\ UpdateSucceeded =>
            \A id \in DOMAIN meta_dir :
                /\ id \in DOMAIN meta_dir'
                /\ Structure(meta_dir'[id]) = Structure(meta_dir[id])
        /\ \A id \in DOMAIN meta_dir' : IndicesArePositions(meta_dir'[id]) ]_vars

\* a template whose name, alias table and layout descriptions were all
\* changed by updates
C24_Witness ==
    /\ IsSome(call) /\ "manager_op" \in DOMAIN call.some
    /\ call.some.manager_op = "update_template_meta"
    /\ \E id \in DOMAIN meta_dir :
          /\ meta_dir[id].name = NewName
          /\ meta_dir[id].custom_config.some.layout_aliases # EmptyDict
          /\ Len(meta_dir[id].layouts) = 2
          /\ \E i \in DOMAIN meta_dir[id].layouts :
                meta_dir[id].layouts[i].description = Some("described")

\* C29: every template id with a stored metadata file has its template file
\* in the templates directory
C29_MetaHasFile ==
    \A id \in DOMAIN meta_dir : meta_dir[id].file_name \in DOMAIN templates_dir

----------------------------------------------------------------------------
(* Properties of the slide count *)

\* slide_count: len(self.prs.slides)
slide_count == Len(prs.slides)

\* C25: the generator starts with zero slides whatever the template file
\* holds; after the k-th successful add_slide call slide_count is k; the saved
\* document has one slide per definition, the i-th made from the layout and
\* carrying the notes of the i-th definition
C25_SlideCount ==
    /\ pc = "add_slide" => slide_count = k - 1
    /\ pc \in {"contents", "shapes", "notes"} => slide_count = k
    /\ pc = "save" => slide_count = Len(slides)
    /\ pc = "done" =>
          /\ IsSome(output)
          /\ Len(output.some) = Len(slides)
          /\ \A i \in DOMAIN slides :
                /\ output.some[i].layout =
                      _find_layout_by_name_or_index(prs, slides[i].layout_name,
                                                    slides[i].layout_index, meta).value.id
                /\ (IsSome(slides[i].speaker_notes) /\ slides[i].speaker_notes.some # "")
                      => output.some[i].notes = slides[i].speaker_notes

\* a document of two slides made from different layouts was saved, the second
\* carrying notes
C25_Witness ==
    /\ pc = "done"
    /\ IsSome(output) /\ Len(output.some) = 2
    /\ output.some[1].layout # output.some[2].layout
    /\ output.some[1].notes = None
    /\ output.some[2].notes = Some("note")

----------------------------------------------------------------------------
(* Properties of the lookup by name *)

\* C26: a lookup by name alone returns a placeholder only when key and native
\* name overlap genuinely: both are non-empty and one contains the other
\* without regard to case, or both are empty; so a placeholder without a name
\* is never returned for a non-empty key, and an empty key never yields a
\* placeholder that has a name
C26_NameOverlap ==
    (Called("ph_type") /\ IsSome(call.some.name) /\ call.some.idx = None
        /\ call.some.ph_type = None /\ IsSome(ret.some)) =>
       LET key == call.some.name.some
           shape_name == call.some.slide.placeholders[ret.some.some].name
       IN  /\ (key = <<>>) = (shape_name = <<>>)
           /\ \/ StrIn(Lower(key), Lower(shape_name))
              \/ StrIn(Lower(shape_name), Lower(key))

----------------------------------------------------------------------------
(* Properties of the accounting of _normalize_contents *)

\* C27: when _normalize_contents returns, every key of the input map is in the
\* result, in input order, and a list that became a TextContent has one
\* paragraph per element; an entry or element is never left out without an
\* error
C27_EveryEntryAccounted ==
    (Called("contents") /\ ret.some.ok) =>
       LET contents == call.some.contents
           normalized == ret.some.value
       IN  /\ Len(normalized) = Len(contents)
           /\ \A i \in DOMAIN contents :
                 /\ normalized[i].key = contents[i].key
                 /\ (contents[i].content.kind = "list" /\ normalized[i].content.kind = "text")
                       => Len(normalized[i].content.paragraphs)
                             = Len(contents[i].content.items)

----------------------------------------------------------------------------
(* Properties of the table grid *)

\* C28: the table _insert_table creates has len(rows) + 1 rows when headers
\* is non-empty and len(rows) rows otherwise, and every header cell and data
\* cell the function addresses lies inside that table, so no cell access
\* fails and every cell of the content is written
C28_CellsInsideTable ==
    Called("table_content") =>
       LET content == call.some.table_content
           shapes == ret.some.slide.shapes
           table == shapes[Len(shapes)]
           hasHeaders == IsSome(content.headers) /\ content.headers.some # <<>>
           writes == (IF hasHeaders THEN HeaderWrites(content) ELSE <<>>)
                        \o RowWrites(content.rows, 1, IF hasHeaders THEN 1 ELSE 0)
       IN  /\ Len(shapes) = 1
           /\ table.rows = Len(content.rows) + (IF hasHeaders THEN 1 ELSE 0)
           /\ \A i \in DOMAIN writes :
                 writes[i][1] < table.rows /\ writes[i][2] < table.cols
           /\ ret.some.ok
           /\ table.cells = writes

----------------------------------------------------------------------------
(* Properties of the session history *)

SessionCall(op) ==
    /\ IsSome(call') /\ "session_op" \in DOMAIN call'.some
    /\ call'.some.session_op = op

\* C30: a successful update_session appends exactly one record, built from
\* its arguments, to the history of the session and makes the supplied slides
\* the current slides; no call shortens or rewrites a history, and in every
\* stored session current_slides is the snapshot of the last record;
\* update_session and update_files on an id that has no stored session raise
\* and store nothing
C30_HistoryAppendOnly ==
    [][ /\ (SessionCall("update_session") /\ call'.some.session_id \in DOMAIN sessions_dir) =>
            LET id == call'.some.session_id
                a == call'.some.args
            IN  /\ ret' = Some([ok |-> TRUE])
                /\ DOMAIN sessions_dir' = DOMAIN sessions_dir
                /\ sessions_dir'[id].generation_history =
                      Append(sessions_dir[id].generation_history,
                             GenerationRecord(a.generation_type, a.user_input, a.slides))
                /\ sessions_dir'[id].current_slides = a.slides
                /\ \A other \in DOMAIN sessions_dir \ {id} :
                      sessions_dir'[other] = sessions_dir[other]
        /\ ((SessionCall("update_session") \/ SessionCall("update_files"))
               /\ call'.some.session_id \notin DOMAIN sessions_dir) =>
            /\ ret' = Some([ok |-> FALSE])
            /\ sessions_dir' = sessions_dir
        /\ \A id \in DOMAIN sessions_dir \cap DOMAIN sessions_dir' :
              LET before == sessions_dir[id].generation_history
                  after == sessions_dir'[id].generation_history
              IN  Len(before) <= Len(after) /\ SubSeq(after, 1, Len(before)) = before
        /\ \A id \in DOMAIN sessions_dir' :
              LET history == sessions_dir'[id].generation_history
              IN  history # <<>> =>
                     sessions_dir'[id].current_slides = history[Len(history)].slides_snapshot
      ]_vars

\* the second update of a session has just returned: its history holds the
\* two records in call order, and another session was deleted meanwhile
C30_Witness ==
    /\ IsSome(call) /\ "session_op" \in DOMAIN call.some
    /\ call.some.session_op = "update_session"
    /\ ret = Some([ok |-> TRUE])
    /\ DOMAIN sessions_dir = {2}
    /\ issued = 2
    /\ Len(sessions_dir[2].generation_history) = 2
    /\ sessions_dir[2].generation_history[1].user_input = "make"
    /\ sessions_dir[2].generation_history[2].user_input = "change"
    /\ sessions_dir[2].current_slides = <<"s1", "s2">>

========================================================================
